---- MODULE Spec2Model ----
(***************************************************************************)
(* Webhook ingestion and retrieval relay: the signature verifier           *)
(* (utils/signature), the file store (store/fileStore), the ingestion      *)
(* route (routes/webhooks) and the retrieval routes (routes/conversations).*)
(*                                                                         *)
(* Strings are sequences of one-character strings, so that prefixes,       *)
(* single-byte changes, hex decoding and numeric parsing are computed on   *)
(* the characters as the code computes them.                               *)
(***************************************************************************)
EXTENDS Integers, Sequences, FiniteSets, TLC

VARIABLES
    env,        \* process.env: the values of the two secret variables ('' when unset)
    wire,       \* the deliveries senders may put on the wire to the ingestion route
    clock,      \* the wall clock, in whole seconds
    dirExists,  \* whether DATA_DIR exists
    files,      \* the files in DATA_DIR: name -> content
    outside,    \* files the store wrote outside DATA_DIR: {[path, content]}
    reqs,       \* the ingestion requests in flight, per connection
    arrivals,   \* the number of ingestion requests received so far
    readers,    \* the retrieval calls in flight, per connection
    lastWrite,  \* the payload of the write that completed last (undefined before any)
    vArgs,      \* verifier harness: the VerifyArgs of the call under test
    vNow,       \* verifier harness: Math.floor(Date.now() / 1000) at the call
    vResult,    \* verifier harness: "none" before the call, then "true" | "false" | "throws"
    vBase,      \* verifier harness: the accepted arguments a tampered call started from
    vTampered,  \* verifier harness: "none" | "body" | "timestamp" | "signature"
    vExamined,  \* verifier harness: the byte pairs the call's comparison examined
    viewer,     \* the transcript viewer: its React state, ref, timer and fetches in flight
    widget      \* the call widget: its React state, polling timer and polls in flight

serverVars == <<env, wire, clock, dirExists, files, outside, reqs, arrivals,
               readers, lastWrite>>
verifierVars == <<vArgs, vNow, vResult, vBase, vTampered, vExamined>>
vars == <<env, wire, clock, dirExists, files, outside, reqs, arrivals, readers, lastWrite,
          vArgs, vNow, vResult, vBase, vTampered, vExamined, viewer, widget>>

----------------------------------------------------------------------------
(* Characters *)

\* The printable ASCII characters in code order, from 32 (space) to 126 (~);
\* code 96 is a placeholder, the grave accent is in no string of the model.
Ascii ==
    << " ", "!", "\"", "#", "$", "%", "&", "'", "(", ")", "*", "+", ",", "-", ".", "/",
       "0", "1", "2", "3", "4", "5", "6", "7", "8", "9", ":", ";", "<", "=", ">", "?",
       "@", "A", "B", "C", "D", "E", "F", "G", "H", "I", "J", "K", "L", "M", "N", "O",
       "P", "Q", "R", "S", "T", "U", "V", "W", "X", "Y", "Z", "[", "\\", "]", "^", "_",
       "GRAVE", "a", "b", "c", "d", "e", "f", "g", "h", "i", "j", "k", "l", "m", "n", "o",
       "p", "q", "r", "s", "t", "u", "v", "w", "x", "y", "z", "{", "|", "}", "~" >>

\* The byte a character is encoded as in UTF-8 (ASCII only; "\n" is 10).
CodeTable ==
    [c \in {Ascii[i] : i \in 1..Len(Ascii)} |->
        31 + (CHOOSE i \in 1..Len(Ascii) : Ascii[i] = c)] @@ <<>>

CharCode(c) == IF c = "\n" THEN 10 ELSE CodeTable[c]

DecDigits == <<"0", "1", "2", "3", "4", "5", "6", "7", "8", "9">>
LowerHex == <<"0", "1", "2", "3", "4", "5", "6", "7", "8", "9", "a", "b", "c", "d", "e", "f">>
UpperHex == <<"0", "1", "2", "3", "4", "5", "6", "7", "8", "9", "A", "B", "C", "D", "E", "F">>

IsDigit(c) == \E i \in 1..10 : DecDigits[i] = c
DigitVal(c) == (CHOOSE i \in 1..10 : DecDigits[i] = c) - 1
HexTable ==
    [c \in {LowerHex[i] : i \in 1..16} \cup {UpperHex[i] : i \in 1..16} |->
        (CHOOSE i \in 1..16 : LowerHex[i] = c \/ UpperHex[i] = c) - 1] @@ <<>>
IsHexChar(c) == c \in DOMAIN HexTable
HexVal(c) == HexTable[c]

\* String.prototype.startsWith
StartsWith(s, p) == Len(s) >= Len(p) /\ SubSeq(s, 1, Len(p)) = p

----------------------------------------------------------------------------
(* Number(string): ECMAScript StringToNumber, as far as the verifier reads it *)

\* Values at or above 10^9 are clamped to NumCap: they lie outside every
\* window the model's clock can form, and TLC's integers are 32 bits wide.
NumCap == 1000000000

IsSpace(c) == c \in {" ", "\n", "\t", "\r"}

RECURSIVE TrimLeft(_)
TrimLeft(s) == IF s # <<>> /\ IsSpace(Head(s)) THEN TrimLeft(Tail(s)) ELSE s

RECURSIVE TrimRight(_)
TrimRight(s) ==
    IF s # <<>> /\ IsSpace(s[Len(s)]) THEN TrimRight(SubSeq(s, 1, Len(s) - 1)) ELSE s

\* String.prototype.trim, which StringToNumber applies first.
Trim(s) == TrimRight(TrimLeft(s))

AllDigits(s) == \A i \in 1..Len(s) : IsDigit(s[i])

RECURSIVE StripZeros(_)
StripZeros(d) == IF d # <<>> /\ Head(d) = "0" THEN StripZeros(Tail(d)) ELSE d

RECURSIVE DigitsToInt(_)
DigitsToInt(d) ==
    IF d = <<>> THEN 0
    ELSE DigitsToInt(SubSeq(d, 1, Len(d) - 1)) * 10 + DigitVal(d[Len(d)])

RECURSIVE Pow(_, _)
Pow(b, n) == IF n = 0 THEN 1 ELSE b * Pow(b, n - 1)

\* The position of the first character of s that is in S, or 0.
FirstIndex(s, S) ==
    IF \E i \in 1..Len(s) : s[i] \in S
    THEN CHOOSE i \in 1..Len(s) : s[i] \in S /\ \A j \in 1..(i - 1) : s[j] \notin S
    ELSE 0

NaN == [kind |-> "nan", lo |-> 0, hi |-> 0]
Infinite == [kind |-> "inf", lo |-> 0, hi |-> 0]
\* A finite number x is kept as its integer floor (lo) and ceiling (hi).
Finite(lo, hi) == [kind |-> "fin", lo |-> lo, hi |-> hi]
Negate(n) == IF n.kind = "fin" THEN Finite(0 - n.hi, 0 - n.lo) ELSE n

\* An exponent's digits as an integer; more than four significant digits
\* are far past the double range either way and read as 99999.
ExponentValue(d) ==
    LET z == StripZeros(d) IN IF Len(z) > 4 THEN 99999 ELSE DigitsToInt(z)

\* The magnitude D * 10^k for the decimal digits D (any leading zeros) and
\* the integer k.  Doubles overflow to Infinity above 1.797...e308 (decided
\* here on the two leading digits) and underflow to 0 below 5e-324.
DecimalMagnitude(digits, k) ==
    LET D == StripZeros(digits)
        nd == Len(D)
        m == nd + k       \* the number of digits left of the decimal point
        lead == IF nd = 1 THEN 10 * DigitVal(D[1])
                ELSE 10 * DigitVal(D[1]) + DigitVal(D[2])
    IN  IF nd = 0 THEN Finite(0, 0)
        ELSE IF m > 309 \/ (m = 309 /\ lead >= 18) THEN Infinite
        ELSE IF m > 9 THEN Finite(NumCap, NumCap)
        ELSE IF k >= 0 THEN
            LET v == DigitsToInt(D) * Pow(10, k) IN Finite(v, v)
        ELSE IF m < 0 - 323 THEN Finite(0, 0)
        ELSE IF m <= 0 THEN Finite(0, 1)
        ELSE
            LET whole == DigitsToInt(SubSeq(D, 1, m))
                rest == SubSeq(D, m + 1, nd)
            IN  Finite(whole, IF StripZeros(rest) = <<>> THEN whole ELSE whole + 1)

\* StrUnsignedDecimalLiteral without the Infinity case:
\*   digits [. [digits]] [exp]  |  . digits [exp],  exp = (e|E) [+|-] digits
UnsignedDecimal(s) ==
    LET ePos == FirstIndex(s, {"e", "E"})
        mant == IF ePos = 0 THEN s ELSE SubSeq(s, 1, ePos - 1)
        expo == IF ePos = 0 THEN <<>> ELSE SubSeq(s, ePos + 1, Len(s))
        expNeg == expo # <<>> /\ Head(expo) = "-"
        expDigits == IF expo # <<>> /\ Head(expo) \in {"+", "-"} THEN Tail(expo) ELSE expo
        dot == FirstIndex(mant, {"."})
        whole == IF dot = 0 THEN mant ELSE SubSeq(mant, 1, dot - 1)
        frac == IF dot = 0 THEN <<>> ELSE SubSeq(mant, dot + 1, Len(mant))
        e == IF expNeg THEN 0 - ExponentValue(expDigits) ELSE ExponentValue(expDigits)
    IN  IF /\ AllDigits(whole) /\ AllDigits(frac)
           /\ Len(whole) + Len(frac) > 0
           /\ (ePos # 0 => expDigits # <<>> /\ AllDigits(expDigits))
        THEN DecimalMagnitude(whole \o frac, e - Len(frac))
        ELSE NaN

RadixOf(c) ==
    IF c \in {"x", "X"} THEN 16 ELSE IF c \in {"o", "O"} THEN 8
    ELSE IF c \in {"b", "B"} THEN 2 ELSE 0

RECURSIVE RadixToInt(_, _)
RadixToInt(d, r) ==
    IF d = <<>> THEN 0
    ELSE RadixToInt(SubSeq(d, 1, Len(d) - 1), r) * r + HexVal(d[Len(d)])

\* NonDecimalIntegerLiteral: 0x.., 0o.., 0b.. (no sign allowed).
IsNonDecimal(s) ==
    /\ Len(s) >= 3 /\ s[1] = "0" /\ RadixOf(s[2]) # 0
    /\ \A i \in 3..Len(s) : IsHexChar(s[i]) /\ HexVal(s[i]) < RadixOf(s[2])

NonDecimal(s) ==
    LET r == RadixOf(s[2])
        d == StripZeros(SubSeq(s, 3, Len(s)))
        bits == IF r = 16 THEN 4 ELSE IF r = 8 THEN 3 ELSE 1
    IN  IF Len(d) * bits > 1024 + bits THEN Infinite
        ELSE IF Len(d) * bits > 28 THEN Finite(NumCap, NumCap)
        ELSE LET v == RadixToInt(d, r) IN Finite(v, v)

InfinityLiteral == <<"I", "n", "f", "i", "n", "i", "t", "y">>

\* Number(s) for a string s.
ToNumber(s) ==
    LET t == Trim(s)
        signed == t # <<>> /\ Head(t) \in {"+", "-"}
        body == IF signed THEN Tail(t) ELSE t
        mag == IF body = InfinityLiteral THEN Infinite ELSE UnsignedDecimal(body)
    IN  IF t = <<>> THEN Finite(0, 0)
        ELSE IF IsNonDecimal(t) THEN NonDecimal(t)
        ELSE IF signed /\ Head(t) = "-" THEN Negate(mag)
        ELSE mag

\* A plausible slip: only the infinities are refused, NaN passes.
IsFiniteOrNaN(n) == n.kind # "inf"

\* Number.isFinite
IsFinite(n) == n.kind = "fin"

\* A plausible slip: the window's edges are refused (>= for >).
SkewExceededAtEdge(now, ts, maxSkewSeconds) ==
    CASE ts.kind = "nan" -> FALSE
      [] ts.kind = "inf" -> TRUE
      [] OTHER -> ts.lo <= now - maxSkewSeconds \/ ts.hi >= now + maxSkewSeconds

\* Math.abs(now - ts) > maxSkewSeconds, for the integer now and the number ts:
\* every comparison with NaN is false, and |now - (+-Infinity)| is Infinity.
SkewExceeded(now, ts, maxSkewSeconds) ==
    CASE ts.kind = "nan" -> FALSE
      [] ts.kind = "inf" -> TRUE
      [] OTHER -> ts.lo < now - maxSkewSeconds \/ ts.hi > now + maxSkewSeconds

----------------------------------------------------------------------------
(* crypto.createHmac('sha256', secret) ... digest('hex'), Buffer.from(s, 'hex') *)

\* SHA-256 digests are 32 bytes.
DigestBytes == 32

\* The keyed hash is modelled as a deterministic function of (key, message)
\* into 32 bytes.  Four polynomial hashes of the byte codes (multipliers 2, 3,
\* 5 and 7, modulo the prime 251) are spread over the 32 bytes by invertible
\* maps, so that changing one byte of the input changes every byte of the
\* output.
HashModulus == 251
LaneMultipliers == <<2, 3, 5, 7>>

\* b^n modulo HashModulus, by squaring.
RECURSIVE PowMod(_, _)
PowMod(b, n) ==
    IF n = 0 THEN 1
    ELSE LET h == PowMod(b, n \div 2)
         IN  IF n % 2 = 0 THEN (h * h) % HashModulus
             ELSE (((h * h) % HashModulus) * b) % HashModulus

\* sum of codes[k] * mult^(hi - k) for k in lo..hi, modulo HashModulus,
\* computed by halves.
RECURSIVE Poly(_, _, _, _)
Poly(codes, lo, hi, mult) ==
    IF lo > hi THEN 0
    ELSE IF lo = hi THEN codes[lo] % HashModulus
    ELSE LET mid == (lo + hi) \div 2
         IN  (Poly(codes, lo, mid, mult) * PowMod(mult, hi - mid)
                + Poly(codes, mid + 1, hi, mult)) % HashModulus

CodesOf(s) == [i \in 1..Len(s) |-> CharCode(s[i])]

\* hmac = createHmac('sha256', key); hmac.update(message); hmac.digest(): the bytes.
HmacSha256(key, message) ==
    LET codes == <<1>> \o CodesOf(key) \o <<0>> \o CodesOf(message)
        lanes == [j \in 1..Len(LaneMultipliers) |->
                    Poly(codes, 1, Len(codes), LaneMultipliers[j])] \o <<>>
    IN  [i \in 1..DigestBytes |->
            (lanes[((i - 1) % Len(LaneMultipliers)) + 1] * (i + 1) + i) % HashModulus] \o <<>>

\* Buffer.prototype.toString('hex') / digest('hex'): two lowercase digits per byte.
HexEncode(bytes) ==
    [i \in 1..(2 * Len(bytes)) |->
        LET b == bytes[(i + 1) \div 2]
        IN  LowerHex[(IF i % 2 = 1 THEN b \div 16 ELSE b % 16) + 1]] \o <<>>

\* The number of leading two-character groups of s that are both hex digits.
HexPairs(s) ==
    LET bad == {n \in 1..(Len(s) \div 2) :
                    ~(IsHexChar(s[2 * n - 1]) /\ IsHexChar(s[2 * n]))}
    IN  IF bad = {} THEN Len(s) \div 2
        ELSE (CHOOSE n \in bad : \A m \in bad : n <= m) - 1

\* Buffer.from(s, 'hex'): decodes pairs of hex digits of either case and stops
\* at the first pair that is not hex; an odd trailing character is dropped.
BufferFromHex(s) ==
    [i \in 1..HexPairs(s) |-> 16 * HexVal(s[2 * i - 1]) + HexVal(s[2 * i])] \o <<>>

\* crypto.timingSafeEqual on two buffers of equal length.
timingSafeEqual(a, b) == \A i \in 1..Len(a) : a[i] = b[i]

----------------------------------------------------------------------------
(* utils/signature: verifySignature *)

\* maxSkewSeconds = 5 * 60
DefaultMaxSkewSeconds == 300

Sha256Prefix == <<"s", "h", "a", "2", "5", "6", "=">>

\* A request body as the handler holds it: a Buffer of bytes, or a value
\* that is not a Buffer (body-parser left req.body as an empty object).
BufferOf(bytes) == [isBuffer |-> TRUE, bytes |-> bytes]
NotABuffer == [isBuffer |-> FALSE, bytes |-> <<>>]

\* const expected = hmac.digest('hex') over `${timestamp}.` then rawBody
ExpectedHex(rawBody, timestamp, secret) ==
    HexEncode(HmacSha256(secret, timestamp \o <<".">> \o rawBody.bytes))

\* A plausible slip: the header is compared as it arrives.
ProvidedUnstripped(signature) == signature

\* const provided = signature.startsWith('sha256=') ? signature.slice(7) : signature
Provided(signature) ==
    IF StartsWith(signature, Sha256Prefix)
    THEN SubSeq(signature, Len(Sha256Prefix) + 1, Len(signature))
    ELSE signature

\* A plausible slip: the secret is not among the values checked for emptiness.
MissingArgumentNoSecret(signature, timestamp, secret) ==
    signature = <<>> \/ timestamp = <<>>

\* !signature || !timestamp || !secret: the empty string is falsy, and so is
\* an absent (undefined) argument, which the model does not tell apart.
MissingArgument(signature, timestamp, secret) ==
    signature = <<>> \/ timestamp = <<>> \/ secret = <<>>

\* verifySignature(args) at clock `now`: "true", "false", or "throws" when
\* hmac.update(rawBody) rejects a rawBody that is neither Buffer nor string.
verifySignature(rawBody, signature, timestamp, secret, maxSkewSeconds, now) ==
    IF MissingArgument(signature, timestamp, secret) THEN "false"
    ELSE LET ts == ToNumber(timestamp) IN
    IF ~IsFinite(ts) THEN "false"
    ELSE IF SkewExceeded(now, ts, maxSkewSeconds) THEN "false"
    ELSE IF ~rawBody.isBuffer THEN "throws"
    ELSE LET a == BufferFromHex(ExpectedHex(rawBody, timestamp, secret))
             b == BufferFromHex(Provided(signature))
         IN  IF Len(a) # Len(b) THEN "false"
             ELSE IF timingSafeEqual(a, b) THEN "true" ELSE "false"

\* A plausible slip: a comparison that returns at the first differing byte.
ExaminedUntilMismatch(a, b) ==
    IF \E i \in 1..Len(a) : a[i] # b[i]
    THEN CHOOSE i \in 1..Len(a) : a[i] # b[i] /\ \A j \in 1..(i - 1) : a[j] = b[j]
    ELSE Len(a)

\* The byte pairs crypto.timingSafeEqual(a, b) examines: all of them, whatever
\* they hold (the library's contract; its code is outside the repository).
ExaminedByTimingSafeEqual(a, b) == Len(a)

\* The byte pairs a call of verifySignature examines: none when it returns
\* before line 30, those of timingSafeEqual otherwise.
BytesExamined(rawBody, signature, timestamp, secret, maxSkewSeconds, now) ==
    IF MissingArgument(signature, timestamp, secret) THEN 0
    ELSE LET ts == ToNumber(timestamp) IN
    IF ~IsFinite(ts) THEN 0
    ELSE IF SkewExceeded(now, ts, maxSkewSeconds) THEN 0
    ELSE IF ~rawBody.isBuffer THEN 0
    ELSE LET a == BufferFromHex(ExpectedHex(rawBody, timestamp, secret))
             b == BufferFromHex(Provided(signature))
         IN  IF Len(a) # Len(b) THEN 0 ELSE ExaminedByTimingSafeEqual(a, b)

----------------------------------------------------------------------------
(* JSON.parse and JSON.stringify(value, null, 2) *)

\* JSON values: strings, integers, null and objects (members in insertion
\* order).  Arrays, booleans, fractions, exponents and string escapes are
\* outside the grammar modelled; no document of the model uses them.
JStr(chars) == [t |-> "str", s |-> chars, n |-> 0, m |-> <<>>]
JNum(n) == [t |-> "num", s |-> <<>>, n |-> n, m |-> <<>>]
JNull == [t |-> "null", s |-> <<>>, n |-> 0, m |-> <<>>]
JObj(members) == [t |-> "obj", s |-> <<>>, n |-> 0, m |-> members]
\* The value of a missing property.
Undefined == [t |-> "undef", s |-> <<>>, n |-> 0, m |-> <<>>]

ParseFail == [ok |-> FALSE, val |-> JNull, next |-> 0]
ParseOk(val, next) == [ok |-> TRUE, val |-> val, next |-> next]

\* The first position from i on where P fails of the character (Len(s) + 1 if none).
FirstNot(s, i, P(_)) ==
    IF \A j \in i..Len(s) : P(s[j]) THEN Len(s) + 1
    ELSE CHOOSE j \in i..Len(s) : ~P(s[j]) /\ \A k \in i..(j - 1) : P(s[k])

\* The first position from i on that holds no JSON whitespace (Len(s) + 1 if none).
SkipWs(s, i) == FirstNot(s, i, IsSpace)

\* The first position from i on that holds no decimal digit.
SkipDigits(s, i) == FirstNot(s, i, IsDigit)

\* The first position from i on that holds c, or 0.
IndexFrom(s, i, c) ==
    IF \E j \in i..Len(s) : s[j] = c
    THEN CHOOSE j \in i..Len(s) : s[j] = c /\ \A k \in i..(j - 1) : s[k] # c
    ELSE 0

\* A string token starting at the quote at position i.
ParseString(s, i) ==
    LET j == IndexFrom(s, i + 1, "\"")
        chars == SubSeq(s, i + 1, j - 1)
    IN  IF j = 0 \/ \E k \in 1..Len(chars) : chars[k] \in {"\\", "\n", "\t", "\r"}
        THEN ParseFail
        ELSE ParseOk(JStr(chars), j + 1)

\* An integer token starting at position i (a digit or a minus sign).
ParseNumber(s, i) ==
    LET neg == s[i] = "-"
        d == IF neg THEN i + 1 ELSE i
        e == SkipDigits(s, d)
        digits == SubSeq(s, d, e - 1)
    IN  IF digits = <<>> \/ (Len(digits) > 1 /\ Head(digits) = "0") \/ Len(digits) > 9
        THEN ParseFail
        ELSE ParseOk(JNum(IF neg THEN 0 - DigitsToInt(digits) ELSE DigitsToInt(digits)), e)

NullLiteral == <<"n", "u", "l", "l">>

\* members with key k set to v: a repeated key keeps its place, the last value wins.
SetMember(members, k, v) ==
    IF \E n \in 1..Len(members) : members[n].k = k
    THEN [n \in 1..Len(members) |->
            IF members[n].k = k THEN [k |-> k, v |-> v] ELSE members[n]]
    ELSE Append(members, [k |-> k, v |-> v])

RECURSIVE ParseValue(_, _)
RECURSIVE ParseMembers(_, _, _)

\* The members of an object from position i (a key's opening quote) on,
\* added to acc, up to and including the closing brace.
ParseMembers(s, i, acc) ==
    IF i > Len(s) \/ s[i] # "\"" THEN ParseFail
    ELSE LET key == ParseString(s, i) IN
    IF ~key.ok THEN ParseFail
    ELSE LET colon == SkipWs(s, key.next) IN
    IF colon > Len(s) \/ s[colon] # ":" THEN ParseFail
    ELSE LET val == ParseValue(s, colon + 1) IN
    IF ~val.ok THEN ParseFail
    ELSE LET sep == SkipWs(s, val.next)
             members == SetMember(acc, key.val.s, val.val)
         IN  IF sep > Len(s) THEN ParseFail
             ELSE IF s[sep] = "}" THEN ParseOk(JObj(members), sep + 1)
             ELSE IF s[sep] = "," THEN ParseMembers(s, SkipWs(s, sep + 1), members)
             ELSE ParseFail

\* The JSON value that starts at or after position i0.
ParseValue(s, i0) ==
    LET i == SkipWs(s, i0) IN
    IF i > Len(s) THEN ParseFail
    ELSE IF s[i] = "\"" THEN ParseString(s, i)
    ELSE IF IsDigit(s[i]) \/ s[i] = "-" THEN ParseNumber(s, i)
    ELSE IF i + 3 <= Len(s) /\ SubSeq(s, i, i + 3) = NullLiteral THEN ParseOk(JNull, i + 4)
    ELSE IF s[i] = "{" THEN
        LET j == SkipWs(s, i + 1) IN
        IF j <= Len(s) /\ s[j] = "}" THEN ParseOk(JObj(<<>>), j + 1)
        ELSE ParseMembers(s, j, <<>>)
    ELSE ParseFail

\* JSON.parse(text): ok is FALSE where JSON.parse throws a SyntaxError.
JsonParse(text) ==
    LET r == ParseValue(text, 1)
    IN  IF r.ok /\ SkipWs(text, r.next) > Len(text) THEN r ELSE ParseFail

RECURSIVE IntToDigits(_)
IntToDigits(n) ==
    IF n < 10 THEN <<DecDigits[n + 1]>> ELSE IntToDigits(n \div 10) \o <<DecDigits[(n % 10) + 1]>>

\* Number.prototype.toString for an integer.
IntToString(n) == IF n < 0 THEN <<"-">> \o IntToDigits(0 - n) ELSE IntToDigits(n)

RECURSIVE Spaces(_)
Spaces(n) == IF n = 0 THEN <<>> ELSE <<" ">> \o Spaces(n - 1)

RECURSIVE Stringify(_, _)
RECURSIVE StringifyMembers(_, _, _)

\* The members from the n-th on, one per line at the given indentation.
StringifyMembers(members, n, indent) ==
    LET m == members[n]
        line == Spaces(indent) \o <<"\"">> \o m.k \o <<"\"", ":", " ">>
                    \o Stringify(m.v, indent)
    IN  IF n = Len(members) THEN line
        ELSE line \o <<",", "\n">> \o StringifyMembers(members, n + 1, indent)

\* JSON.stringify(value, null, 2) for a value nested at the given indentation.
Stringify(value, indent) ==
    CASE value.t = "str" -> <<"\"">> \o value.s \o <<"\"">>
      [] value.t = "num" -> IntToString(value.n)
      [] value.t = "null" -> NullLiteral
      [] value.t = "obj" ->
            IF value.m = <<>> THEN <<"{", "}">>
            ELSE <<"{", "\n">> \o StringifyMembers(value.m, 1, indent + 2)
                    \o <<"\n">> \o Spaces(indent) \o <<"}">>

----------------------------------------------------------------------------
(* store/fileStore: getFilename and the path it is written to *)

TypeKey == <<"t", "y", "p", "e">>
DataKey == <<"d", "a", "t", "a">>
ConversationIdKey ==
    <<"c", "o", "n", "v", "e", "r", "s", "a", "t", "i", "o", "n", "_", "i", "d">>
EventTimestampKey ==
    <<"e", "v", "e", "n", "t", "_", "t", "i", "m", "e", "s", "t", "a", "m", "p">>
UnknownType == <<"u", "n", "k", "n", "o", "w", "n">>
NoConversation ==
    <<"n", "o", "_", "c", "o", "n", "v", "e", "r", "s", "a", "t", "i", "o", "n">>
JsonSuffix == <<".", "j", "s", "o", "n">>
ObjectObject ==
    <<"[", "o", "b", "j", "e", "c", "t", " ", "O", "b", "j", "e", "c", "t", "]">>

\* value?.key: the member of an object, undefined for anything else.
Get(value, key) ==
    IF value.t = "obj" /\ \E n \in 1..Len(value.m) : value.m[n].k = key
    THEN value.m[CHOOSE n \in 1..Len(value.m) : value.m[n].k = key].v
    ELSE Undefined

\* a ?? b
Coalesce(a, b) == IF a.t \in {"undef", "null"} THEN b ELSE a

\* String(value), also what a template literal interpolates.
JsToString(value) ==
    CASE value.t = "str" -> value.s
      [] value.t = "num" -> IntToString(value.n)
      [] value.t = "obj" -> ObjectObject
      [] value.t = "null" -> NullLiteral
      [] OTHER -> <<"u", "n", "d", "e", "f", "i", "n", "e", "d">>

\* [a-zA-Z0-9_-]
IsSafeChar(c) ==
    LET code == CharCode(c)
    IN  \/ (code >= 48 /\ code <= 57) \/ (code >= 65 /\ code <= 90)
        \/ (code >= 97 /\ code <= 122) \/ c = "_" \/ c = "-"

\* A plausible slip: the id is used as it arrives.
SanitizeNothing(s) == s

\* .replace(/[^a-zA-Z0-9_-]/g, '_')
Sanitize(s) == [i \in 1..Len(s) |-> IF IsSafeChar(s[i]) THEN s[i] ELSE "_"]

\* A plausible slip: the name is stamped with the time of the save.
getFilenameByArrival(payload, nowMs) ==
    LET type == Coalesce(Get(payload, TypeKey), JStr(UnknownType))
        conversationId ==
            Coalesce(Get(Get(payload, DataKey), ConversationIdKey), JStr(NoConversation))
        safeConv == Sanitize(JsToString(conversationId))
    IN  JsToString(JNum(nowMs)) \o <<"_">> \o JsToString(type) \o <<"_">> \o safeConv
            \o JsonSuffix

\* getFilename(payload), with Date.now() = nowMs
getFilename(payload, nowMs) ==
    LET type == Coalesce(Get(payload, TypeKey), JStr(UnknownType))
        conversationId ==
            Coalesce(Get(Get(payload, DataKey), ConversationIdKey), JStr(NoConversation))
        eventTs == Coalesce(Get(payload, EventTimestampKey), JNum(nowMs))
        safeConv == Sanitize(JsToString(conversationId))
    IN  JsToString(eventTs) \o <<"_">> \o JsToString(type) \o <<"_">> \o safeConv \o JsonSuffix

\* DATA_DIR = path.join(process.cwd(), 'backend', 'data'), relative to cwd
DataDir == << <<"b", "a", "c", "k", "e", "n", "d">>, <<"d", "a", "t", "a">> >>

\* The segments of a path between its separators.
SplitPath(s) ==
    LET seps == {i \in 1..Len(s) : s[i] = "/"}
        \* the position of the k-th separator; 0 and Len(s) + 1 bracket the path
        sep(k) == IF k = 0 THEN 0
                  ELSE IF k > Cardinality(seps) THEN Len(s) + 1
                  ELSE CHOOSE i \in seps : Cardinality({j \in seps : j <= i}) = k
    IN  [k \in 1..(Cardinality(seps) + 1) |-> SubSeq(s, sep(k - 1) + 1, sep(k) - 1)]

\* path.normalize over the segments: '' and '.' vanish, '..' removes the
\* segment before it, or climbs above cwd (ups) when none is left.
RECURSIVE Normalize(_, _)
Normalize(segs, acc) ==
    IF segs = <<>> THEN acc
    ELSE LET h == Head(segs) IN
         IF h = <<>> \/ h = <<".">> THEN Normalize(Tail(segs), acc)
         ELSE IF h = <<".", ".">> THEN
            IF acc.segs = <<>>
            THEN Normalize(Tail(segs), [acc EXCEPT !.ups = @ + 1])
            ELSE Normalize(Tail(segs),
                           [acc EXCEPT !.segs = SubSeq(@, 1, Len(@) - 1)])
         ELSE Normalize(Tail(segs), [acc EXCEPT !.segs = Append(@, h)])

\* path.join(DATA_DIR, filename), relative to cwd.
JoinDataDir(filename) ==
    Normalize(SplitPath(filename), [ups |-> 0, segs |-> DataDir])

\* The path names a direct child of DATA_DIR.
InDataDir(p) ==
    p.ups = 0 /\ Len(p.segs) = Len(DataDir) + 1 /\ SubSeq(p.segs, 1, Len(DataDir)) = DataDir

\* The path lies below DATA_DIR in a subdirectory; the store creates none.
BelowDataDir(p) ==
    p.ups = 0 /\ Len(p.segs) > Len(DataDir) + 1 /\ SubSeq(p.segs, 1, Len(DataDir)) = DataDir

\* The directory the path's last segment is created in is cwd, backend or an
\* ancestor of cwd: it exists.
ParentIsAncestor(p) ==
    /\ p.segs # <<>>
    /\ \/ Len(p.segs) = 1
       \/ (p.ups = 0 /\ Len(p.segs) = 2 /\ p.segs[1] = DataDir[1])

----------------------------------------------------------------------------
(* routes/webhooks: POST /webhooks/elevenlabs, with store/fileStore's save *)

\* The connections served at the same time.
Slots == {1, 2}

\* The ingestion requests of one run.
MaxRequests == 2

\* The last second the clock reaches.
MaxClock == 301

ClockStart == {300}

Put(f, k, v) == [x \in (DOMAIN f) \cup {k} |-> IF x = k THEN v ELSE f[x]]

\* req.body after express.raw({ type: '*/*' }) and express.json(): the raw
\* bytes; or, for a request the raw parser skipped (no body, or no
\* Content-Type), the empty object body-parser 1.x leaves or the undefined
\* body-parser 2.x leaves.
BufferBody(bytes) == [kind |-> "buffer", bytes |-> bytes]
ObjectBody == [kind |-> "object", bytes |-> <<>>]
UndefinedBody == [kind |-> "undefined", bytes |-> <<>>]

\* A body longer than the limit of express.raw, for which no limit option is
\* given at line 15 of index.ts: the parser's default of 100kb applies.
OversizeBody == [kind |-> "oversize", bytes |-> <<>>]

\* The raw parser reads the body only up to its limit.
WithinLimit(body) == body.kind # "oversize"

\* const rawBody = (req.body as Buffer) ?? Buffer.from('')
RawBodyOf(body) ==
    IF body.kind = "buffer" THEN BufferOf(body.bytes)
    ELSE IF body.kind = "undefined" THEN BufferOf(<<>>)
    ELSE NotABuffer

\* const secret = process.env.WEBHOOK_SECRET || ''
ConfiguredSecret(e) == e.WEBHOOK_SECRET

KnownTypes ==
    { <<"p", "o", "s", "t", "_", "c", "a", "l", "l", "_",
        "t", "r", "a", "n", "s", "c", "r", "i", "p", "t", "i", "o", "n">>,
      <<"p", "o", "s", "t", "_", "c", "a", "l", "l", "_", "a", "u", "d", "i", "o">> }

\* payloadType !== 'post_call_transcription' && payloadType !== 'post_call_audio'
IsUnknownType(payload) ==
    LET payloadType == Get(payload, TypeKey)
    IN  ~(payloadType.t = "str" /\ payloadType.s \in KnownTypes)

NoTarget == [ups |-> 0, segs |-> <<>>]

IdleRequest ==
    [pc |-> "Idle", body |-> UndefinedBody, signature |-> <<>>, timestamp |-> <<>>,
     payload |-> Undefined, target |-> NoTarget, status |-> 0, reply |-> "",
     writes |-> 0]

\* res.status(status).json(reply), ending the request in state pc.
Respond(r, pc, status, reply) ==
    reqs' = [reqs EXCEPT ![r].pc = pc, ![r].status = status, ![r].reply = reply]

\* {"type":"post_call_transcription","event_timestamp":100,"data":{"conversation_id":"c1"}}
TranscriptionDoc ==
    << "{", "\"", "t", "y", "p", "e", "\"", ":", "\"", "p", "o", "s", "t", 
       "_", "c", "a", "l", "l", "_", "t", "r", "a", "n", "s", "c", "r", "i", 
       "p", "t", "i", "o", "n", "\"", ",", "\"", "e", "v", "e", "n", "t", "_", 
       "t", "i", "m", "e", "s", "t", "a", "m", "p", "\"", ":", "1", "0", "0", 
       ",", "\"", "d", "a", "t", "a", "\"", ":", "{", "\"", "c", "o", "n", 
       "v", "e", "r", "s", "a", "t", "i", "o", "n", "_", "i", "d", "\"", ":", 
       "\"", "c", "1", "\"", "}", "}" >>

\* {"type":"post_call_audio","event_timestamp":200}
AudioDoc ==
    << "{", "\"", "t", "y", "p", "e", "\"", ":", "\"", "p", "o", "s", "t", 
       "_", "c", "a", "l", "l", "_", "a", "u", "d", "i", "o", "\"", ",", "\"", 
       "e", "v", "e", "n", "t", "_", "t", "i", "m", "e", "s", "t", "a", "m", 
       "p", "\"", ":", "2", "0", "0", "}" >>

\* {"type":"something_else","event_timestamp":300,"data":{"conversation_id":"c1"}}
OtherTypeDoc ==
    << "{", "\"", "t", "y", "p", "e", "\"", ":", "\"", "s", "o", "m", "e", 
       "t", "h", "i", "n", "g", "_", "e", "l", "s", "e", "\"", ",", "\"", "e", 
       "v", "e", "n", "t", "_", "t", "i", "m", "e", "s", "t", "a", "m", "p", 
       "\"", ":", "3", "0", "0", ",", "\"", "d", "a", "t", "a", "\"", ":", 
       "{", "\"", "c", "o", "n", "v", "e", "r", "s", "a", "t", "i", "o", "n", 
       "_", "i", "d", "\"", ":", "\"", "c", "1", "\"", "}", "}" >>

\* {}
EmptyObjectDoc ==
    << "{", "}" >>

\* {"type":"a/b","event_timestamp":100}
SlashTypeDoc ==
    << "{", "\"", "t", "y", "p", "e", "\"", ":", "\"", "a", "/", "b", "\"", 
       ",", "\"", "e", "v", "e", "n", "t", "_", "t", "i", "m", "e", "s", "t", 
       "a", "m", "p", "\"", ":", "1", "0", "0", "}" >>

\* {"type":"post_call_audio"
TruncatedDoc ==
    << "{", "\"", "t", "y", "p", "e", "\"", ":", "\"", "p", "o", "s", "t", 
       "_", "c", "a", "l", "l", "_", "a", "u", "d", "i", "o", "\"" >>

\* The shared secret of the deployment, and a key that is not it.
TheSecret == <<"k">>
OtherSecret == <<"s">>
FreshTimestamp == <<"3", "0", "0">>
StaleTimestamp == <<"9", "0", "0">>

\* A delivery of the given bytes, signed by the platform with key over ts.
Signed(bytes, ts, key) ==
    [body |-> BufferBody(bytes), timestamp |-> ts,
     signature |-> HexEncode(HmacSha256(key, ts \o <<".">> \o bytes))]

\* What the platform, or anyone else, may send.
Deliveries ==
    { Signed(b, FreshTimestamp, TheSecret) :
        b \in {TranscriptionDoc, AudioDoc, OtherTypeDoc, EmptyObjectDoc, SlashTypeDoc,
               TruncatedDoc, <<>>} }
    \cup { Signed(TranscriptionDoc, StaleTimestamp, TheSecret),
           Signed(TranscriptionDoc, FreshTimestamp, OtherSecret),
           [Signed(TranscriptionDoc, FreshTimestamp, TheSecret) EXCEPT !.signature = <<>>],
           [Signed(<<>>, FreshTimestamp, TheSecret) EXCEPT !.body = ObjectBody],
           [Signed(<<>>, FreshTimestamp, TheSecret) EXCEPT !.body = UndefinedBody] }

\* process.env as the deployment sets it: no secret, WEBHOOK_SECRET, or the
\* variable the README's setup names.
Environments ==
    { [WEBHOOK_SECRET |-> <<>>, ELEVENLABS_CONVAI_WEBHOOK_SECRET |-> <<>>],
      [WEBHOOK_SECRET |-> TheSecret, ELEVENLABS_CONVAI_WEBHOOK_SECRET |-> <<>>],
      [WEBHOOK_SECRET |-> <<>>, ELEVENLABS_CONVAI_WEBHOOK_SECRET |-> TheSecret] }

\* A request reaches the route: express.raw has read the whole body.
Arrive(r) ==
    /\ reqs[r].pc \in {"Idle", "Acknowledged", "Rejected"}
    /\ arrivals < MaxRequests
    /\ \E d \in wire :
        /\ WithinLimit(d.body)
        /\ reqs' = [reqs EXCEPT ![r] =
                    [IdleRequest EXCEPT !.pc = "Received", !.body = d.body,
                                        !.signature = d.signature,
                                        !.timestamp = d.timestamp]]
    /\ arrivals' = arrivals + 1
    /\ UNCHANGED <<env, wire, readers, clock, dirExists, files, outside>>
    /\ UNCHANGED <<lastWrite, verifierVars, viewer, widget>>

\* A request whose body exceeds the parser's limit: express.raw passes a
\* PayloadTooLargeError to next(), the route is not entered, and express's
\* error handler answers with the error's status, 413.
RefuseBody(r) ==
    /\ reqs[r].pc \in {"Idle", "Acknowledged", "Rejected"}
    /\ arrivals < MaxRequests
    /\ \E d \in wire :
        /\ ~WithinLimit(d.body)
        /\ reqs' = [reqs EXCEPT ![r] =
                    [IdleRequest EXCEPT !.pc = "Rejected", !.body = d.body,
                                        !.signature = d.signature,
                                        !.timestamp = d.timestamp,
                                        !.status = 413,
                                        !.reply = "PayloadTooLargeError"]]
    /\ arrivals' = arrivals + 1
    /\ UNCHANGED <<env, wire, readers, clock, dirExists, files, outside>>
    /\ UNCHANGED <<lastWrite, verifierVars, viewer, widget>>

\* A plausible slip: the handler does not check that the secret is set.
SecretMissingUnchecked(secret) == FALSE

\* if (!secret)
SecretMissing(secret) == secret = <<>>

\* A plausible slip: the verdict of verifySignature is not acted on.
SignatureRejectedNever(verdict) == FALSE

\* if (!verifySignature({ rawBody, signature, timestamp, secret }))
SignatureRejected(verdict) == verdict = "false"

\* A plausible slip: a parser that yields null for a malformed text.
ParseThrowsNever(parsed) == FALSE

\* JSON.parse throws a SyntaxError.
ParseThrows(parsed) == ~parsed.ok

\* Lines 10-22: the secret check, then verifySignature; an exception it
\* throws is caught at line 40.
Verify(r) ==
    /\ reqs[r].pc = "Received"
    /\ LET secret == ConfiguredSecret(env)
           verdict == verifySignature(RawBodyOf(reqs[r].body), reqs[r].signature,
                                      reqs[r].timestamp, secret,
                                      DefaultMaxSkewSeconds, clock)
       IN  IF SecretMissing(secret)
           THEN Respond(r, "Rejected", 500, "{error:'Webhook secret not configured'}")
           ELSE IF SignatureRejected(verdict)
           THEN Respond(r, "Rejected", 401, "{error:'Invalid signature'}")
           ELSE IF verdict = "throws"
           THEN Respond(r, "Rejected", 400, "{error:'Invalid payload'}")
           ELSE reqs' = [reqs EXCEPT ![r].pc = "Verified"]
    /\ UNCHANGED <<env, wire, readers, clock, dirExists, files, outside, arrivals>>
    /\ UNCHANGED <<lastWrite, verifierVars, viewer, widget>>

\* A plausible slip: the body is parsed as soon as it is received.
ParseOnArrival(r) ==
    /\ reqs[r].pc = "Received"
    /\ LET parsed == JsonParse(RawBodyOf(reqs[r].body).bytes)
       IN  IF ParseThrows(parsed)
           THEN Respond(r, "Rejected", 400, "{error:'Invalid payload'}")
           ELSE reqs' = [reqs EXCEPT ![r].pc = "Parsed", ![r].payload = parsed.val]
    /\ UNCHANGED <<env, wire, readers, clock, dirExists, files, outside, arrivals>>
    /\ UNCHANGED <<lastWrite, verifierVars, viewer, widget>>

\* Lines 25-26: JSON.parse(rawBody.toString('utf8')); a SyntaxError is caught
\* at line 40.
Parse(r) ==
    /\ reqs[r].pc = "Verified"
    /\ LET parsed == JsonParse(RawBodyOf(reqs[r].body).bytes)
       IN  IF ParseThrows(parsed)
           THEN Respond(r, "Rejected", 400, "{error:'Invalid payload'}")
           ELSE reqs' = [reqs EXCEPT ![r].pc = "Parsed", ![r].payload = parsed.val]
    /\ UNCHANGED <<env, wire, readers, clock, dirExists, files, outside, arrivals>>
    /\ UNCHANGED <<lastWrite, verifierVars, viewer, widget>>

\* Lines 28-30: the type is read; either branch goes on to save the payload.
Classify(r) ==
    /\ reqs[r].pc = "Parsed"
    /\ reqs' = [reqs EXCEPT ![r].pc = "Classified"]
    /\ UNCHANGED <<env, wire, readers, clock, dirExists, files, outside, arrivals>>
    /\ UNCHANGED <<lastWrite, verifierVars, viewer, widget>>

\* saveConversationPayload, line 19: await ensureDir().
EnsureDir(r) ==
    /\ reqs[r].pc = "Classified"
    /\ dirExists' = TRUE
    /\ reqs' = [reqs EXCEPT ![r].pc = "Saving"]
    /\ UNCHANGED <<env, wire, readers, clock, files, outside, arrivals>>
    /\ UNCHANGED <<lastWrite, verifierVars, viewer, widget>>

\* saveConversationPayload, lines 20-22: the filename, the path, and
\* fs.writeFile opening it for writing, which creates or truncates the file;
\* ENOENT for a missing directory is caught at line 40 of the route.
OpenFile(r) ==
    /\ reqs[r].pc = "Saving"
    /\ LET p == JoinDataDir(getFilename(reqs[r].payload, clock * 1000))
       IN  \/ /\ InDataDir(p)
              /\ files' = Put(files, p.segs[Len(p.segs)], <<>>)
              /\ reqs' = [reqs EXCEPT ![r].pc = "Writing", ![r].target = p,
                                      ![r].writes = @ + 1]
              /\ UNCHANGED outside
           \/ /\ ~InDataDir(p)
              /\ ParentIsAncestor(p) \/ ~BelowDataDir(p)
              /\ outside' = {o \in outside : o.path # p} \cup {[path |-> p, content |-> <<>>]}
              /\ reqs' = [reqs EXCEPT ![r].pc = "Writing", ![r].target = p,
                                      ![r].writes = @ + 1]
              /\ UNCHANGED files
           \/ /\ ~InDataDir(p)
              /\ ~ParentIsAncestor(p)
              /\ Respond(r, "Rejected", 400, "{error:'Invalid payload'}")
              /\ UNCHANGED <<files, outside>>
    /\ UNCHANGED <<env, wire, readers, clock, dirExists, arrivals>>
    /\ UNCHANGED <<lastWrite, verifierVars, viewer, widget>>

\* saveConversationPayload, line 22: the bytes of JSON.stringify(payload,
\* null, 2) are written and the promise resolves.
WriteFile(r) ==
    /\ reqs[r].pc = "Writing"
    /\ LET p == reqs[r].target
           content == Stringify(reqs[r].payload, 0)
       IN  IF InDataDir(p)
           THEN /\ files' = Put(files, p.segs[Len(p.segs)], content)
                /\ UNCHANGED outside
           ELSE /\ outside' = {o \in outside : o.path # p}
                                \cup {[path |-> p, content |-> content]}
                /\ UNCHANGED files
    /\ reqs' = [reqs EXCEPT ![r].pc = "Stored", ![r].writes = @ + 1]
    /\ UNCHANGED <<env, wire, readers, clock, dirExists, arrivals>>
    /\ lastWrite' = reqs[r].payload
    /\ UNCHANGED <<verifierVars, viewer, widget>>

\* Lines 33 and 39: 202 for an unknown type, 200 for a known one.
Acknowledge(r) ==
    /\ reqs[r].pc = "Stored"
    /\ IF IsUnknownType(reqs[r].payload)
       THEN Respond(r, "Acknowledged", 202, "{status:'ignored',reason:'unknown_type'}")
       ELSE Respond(r, "Acknowledged", 200, "{ok:true}")
    /\ UNCHANGED <<env, wire, readers, clock, dirExists, files, outside, arrivals>>
    /\ UNCHANGED <<lastWrite, verifierVars, viewer, widget>>

\* Time passes.
Tick ==
    /\ clock < MaxClock
    /\ clock' = clock + 1
    /\ UNCHANGED <<env, wire, readers, dirExists, files, outside, reqs, arrivals>>
    /\ UNCHANGED <<lastWrite, verifierVars, viewer, widget>>

----------------------------------------------------------------------------
(* store/fileStore: getAllConversations and getConversationById *)

\* The connections retrieval calls are served on.
ReaderSlots == {1}

\* The retrieval calls of one connection.
MaxLookups == 1

\* The save calls of one run of the store.
MaxSaves == 2

Min(a, b) == IF a < b THEN a ELSE b

\* a < b as Array.prototype.sort() orders strings: by code units, a proper
\* prefix first.
LexLess(a, b) ==
    LET differ == {i \in 1..Min(Len(a), Len(b)) : a[i] # b[i]}
    IN  IF differ = {} THEN Len(a) < Len(b)
        ELSE LET i == CHOOSE k \in differ : \A m \in differ : k <= m
             IN  CharCode(a[i]) < CharCode(b[i])

\* names.sort(): the names of the set in ascending order.
Sort(names) ==
    [i \in 1..Cardinality(names) |->
        CHOOSE x \in names : Cardinality({y \in names : LexLess(y, x)}) = i - 1] \o <<>>

\* Array.prototype.reverse
Reverse(seq) == [i \in 1..Len(seq) |-> seq[Len(seq) - i + 1]] \o <<>>

\* Array.prototype.slice(0, limit)
Slice(seq, limit) == SubSeq(seq, 1, Min(limit, Len(seq)))

\* String.prototype.endsWith
EndsWith(s, suffix) ==
    Len(s) >= Len(suffix) /\ SubSeq(s, Len(s) - Len(suffix) + 1, Len(s)) = suffix

\* String.prototype.includes
Includes(s, part) ==
    \E i \in 0..(Len(s) - Len(part)) : SubSeq(s, i + 1, i + Len(part)) = part

\* fs.readdir(DATA_DIR): the names in the directory.
Entries == DOMAIN files

\* entries.filter((f) => f.endsWith('.json')).sort().reverse()
ListedFiles(entries) == Reverse(Sort({f \in entries : EndsWith(f, JsonSuffix)}))

\* entries.filter((f) => f.includes(conversationId) && f.endsWith('.json')).sort().reverse()
MatchedFiles(entries, conversationId) ==
    Reverse(Sort({f \in entries : Includes(f, conversationId) /\ EndsWith(f, JsonSuffix)}))

\* The limit of a listing called with no limit.
DefaultLimit == 100

\* const limit = options?.limit ?? 100
LimitOf(options) == IF options.given THEN options.limit ELSE DefaultLimit

\* The options listings are called with: one record, fifty, and no limit.
ListOptions ==
    { [given |-> TRUE, limit |-> 1], [given |-> TRUE, limit |-> 50],
      [given |-> FALSE, limit |-> 0] }

Limits == {LimitOf(options) : options \in ListOptions}

\* The ids lookups are called with.
LookupIds == { <<"c", "1">>, <<"z", "z">> }

\* No save is between its call and its return.
Quiet == \A r \in Slots : reqs[r].pc \notin {"Classified", "Saving", "Writing"}

IdleReader ==
    [pc |-> "Idle", op |-> "none", id |-> <<>>, limit |-> 0, queue |-> <<>>,
     items |-> <<>>, result |-> Undefined, calls |-> 0, quiet |-> FALSE, epoch |-> 0,
     route |-> FALSE, status |-> 0, reply |-> ""]

\* getAllConversations({ limit }), to the return of await ensureDir().
getAllConversations(q) ==
    /\ readers[q].pc \in {"Idle", "Done"}
    /\ readers[q].calls < MaxLookups
    /\ \E limit \in Limits :
        readers' = [readers EXCEPT ![q] =
                        [IdleReader EXCEPT !.pc = "DirReady", !.op = "list",
                                           !.limit = limit,
                                           !.calls = readers[q].calls + 1,
                                           !.quiet = Quiet, !.epoch = arrivals]]
    /\ dirExists' = TRUE
    /\ UNCHANGED <<env, wire, clock, files, outside, reqs, arrivals, lastWrite>>
    /\ UNCHANGED <<verifierVars, viewer, widget>>

\* getConversationById(conversationId), to the return of await ensureDir().
getConversationById(q) ==
    /\ readers[q].pc \in {"Idle", "Done"}
    /\ readers[q].calls < MaxLookups
    /\ \E id \in LookupIds :
        readers' = [readers EXCEPT ![q] =
                        [IdleReader EXCEPT !.pc = "DirReady", !.op = "get", !.id = id,
                                           !.calls = readers[q].calls + 1,
                                           !.quiet = Quiet, !.epoch = arrivals]]
    /\ dirExists' = TRUE
    /\ UNCHANGED <<env, wire, clock, files, outside, reqs, arrivals, lastWrite>>
    /\ UNCHANGED <<verifierVars, viewer, widget>>

\* A plausible slip: every listed file is read, the limit left for later.
ReadDirUnsliced(q) ==
    /\ readers[q].pc = "DirReady"
    /\ LET selected ==
               IF readers[q].op = "list"
               THEN ListedFiles(Entries)
               ELSE Slice(MatchedFiles(Entries, readers[q].id), 1)
       IN  readers' = [readers EXCEPT
                ![q].queue = selected,
                ![q].pc = IF selected = <<>> THEN "Done" ELSE "Reading",
                ![q].result = IF readers[q].op = "get" /\ selected = <<>>
                              THEN JNull ELSE @]
    /\ UNCHANGED <<env, wire, clock, dirExists, files, outside, reqs, arrivals, lastWrite>>
    /\ UNCHANGED <<verifierVars, viewer, widget>>

\* Lines 27-30 and 45-47: the directory is listed, the names filtered and
\* sorted; a lookup with no match returns null.
ReadDir(q) ==
    /\ readers[q].pc = "DirReady"
    /\ LET selected ==
               IF readers[q].op = "list"
               THEN Slice(ListedFiles(Entries), readers[q].limit)
               ELSE Slice(MatchedFiles(Entries, readers[q].id), 1)
       IN  readers' = [readers EXCEPT
                ![q].queue = selected,
                ![q].pc = IF selected = <<>> THEN "Done" ELSE "Reading",
                ![q].result = IF readers[q].op = "get" /\ selected = <<>>
                              THEN JNull ELSE @]
    /\ UNCHANGED <<env, wire, clock, dirExists, files, outside, reqs, arrivals, lastWrite>>
    /\ UNCHANGED <<verifierVars, viewer, widget>>

\* A plausible slip: a file that does not parse is removed when it is met.
ReadFileRemovingCorrupt(q) ==
    /\ readers[q].pc = "Reading"
    /\ LET name == Head(readers[q].queue)
           parsed == JsonParse(files[name])
           rest == Tail(readers[q].queue)
       IN  /\ readers' = [readers EXCEPT
                ![q].queue = rest,
                ![q].pc = IF rest = <<>> THEN "Done" ELSE "Reading",
                ![q].items = IF readers[q].op = "list" /\ parsed.ok
                             THEN Append(@, parsed.val) ELSE @,
                ![q].result = IF readers[q].op = "get"
                              THEN (IF parsed.ok THEN parsed.val ELSE JNull) ELSE @]
           /\ files' = IF parsed.ok THEN files
                       ELSE [x \in (DOMAIN files) \ {name} |-> files[x]]
    /\ UNCHANGED <<env, wire, clock, dirExists, outside, reqs, arrivals, lastWrite>>
    /\ UNCHANGED <<verifierVars, viewer, widget>>

\* A plausible slip: no try/catch inside the loop, so a file that does not
\* parse makes the whole call fail.
ReadFileFailingOnCorrupt(q) ==
    /\ readers[q].pc = "Reading"
    /\ LET content == files[Head(readers[q].queue)]
           parsed == JsonParse(content)
           rest == Tail(readers[q].queue)
       IN  readers' = [readers EXCEPT
                ![q].queue = rest,
                ![q].pc = IF ~parsed.ok THEN "Failed"
                          ELSE IF rest = <<>> THEN "Done" ELSE "Reading",
                ![q].items = IF readers[q].op = "list" /\ parsed.ok
                             THEN Append(@, parsed.val) ELSE @,
                ![q].result = IF readers[q].op = "get" /\ parsed.ok
                              THEN parsed.val ELSE @]
    /\ UNCHANGED <<env, wire, clock, dirExists, files, outside, reqs, arrivals, lastWrite>>
    /\ UNCHANGED <<verifierVars, viewer, widget>>

\* Lines 33-38 and 48-53: the next selected file is read and parsed; a
\* listing skips a file that does not parse, a lookup returns null for it.
ReadFile(q) ==
    /\ readers[q].pc = "Reading"
    /\ LET content == files[Head(readers[q].queue)]
           parsed == JsonParse(content)
           rest == Tail(readers[q].queue)
       IN  readers' = [readers EXCEPT
                ![q].queue = rest,
                ![q].pc = IF rest = <<>> THEN "Done" ELSE "Reading",
                ![q].items = IF readers[q].op = "list" /\ parsed.ok
                             THEN Append(@, parsed.val) ELSE @,
                ![q].result = IF readers[q].op = "get"
                              THEN (IF parsed.ok THEN parsed.val ELSE JNull) ELSE @]
    /\ UNCHANGED <<env, wire, clock, dirExists, files, outside, reqs, arrivals, lastWrite>>
    /\ UNCHANGED <<verifierVars, viewer, widget>>

----------------------------------------------------------------------------
(* routes/conversations: GET /conversations and GET /conversations/:conversationId *)

\* getAllConversations({ limit: 50 })
PageSize == 50

\* The ids GET /conversations/:conversationId is requested with.
RouteIds ==
    { <<"c", "1">>, <<"c", ".", "1">>, NoConversation, <<"z", "z">> }

\* No ingestion request is between its arrival and its answer.
Settled == \A r \in Slots : reqs[r].pc \in {"Idle", "Acknowledged", "Rejected"}

\* !item: null, undefined, 0 and the empty string are falsy.
Falsy(item) ==
    \/ item.t \in {"null", "undef"}
    \/ (item.t = "num" /\ item.n = 0)
    \/ (item.t = "str" /\ item.s = <<>>)

\* GET /conversations, lines 7-8: getAllConversations({ limit: 50 }) is called
\* and runs to the return of await ensureDir().
GetConversations(q) ==
    /\ readers[q].pc \in {"Idle", "Answered"}
    /\ readers[q].calls < MaxLookups
    /\ readers' = [readers EXCEPT ![q] =
                    [IdleReader EXCEPT !.pc = "DirReady", !.op = "list",
                                       !.limit = LimitOf([given |-> TRUE, limit |-> PageSize]),
                                       !.route = TRUE,
                                       !.calls = readers[q].calls + 1,
                                       !.quiet = Settled, !.epoch = arrivals]]
    /\ dirExists' = TRUE
    /\ UNCHANGED <<env, wire, clock, files, outside, reqs, arrivals, lastWrite>>
    /\ UNCHANGED <<verifierVars, viewer, widget>>

\* GET /conversations/:conversationId, lines 13-15: getConversationById is
\* called with the path parameter and runs to the return of await ensureDir().
GetConversation(q) ==
    /\ readers[q].pc \in {"Idle", "Answered"}
    /\ readers[q].calls < MaxLookups
    /\ \E conversationId \in RouteIds :
        readers' = [readers EXCEPT ![q] =
                        [IdleReader EXCEPT !.pc = "DirReady", !.op = "get",
                                           !.id = conversationId, !.route = TRUE,
                                           !.calls = readers[q].calls + 1,
                                           !.quiet = Settled, !.epoch = arrivals]]
    /\ dirExists' = TRUE
    /\ UNCHANGED <<env, wire, clock, files, outside, reqs, arrivals, lastWrite>>
    /\ UNCHANGED <<verifierVars, viewer, widget>>

\* Line 9: res.json({ items })
AnswerConversations(q) ==
    /\ readers[q].pc = "Done"
    /\ readers[q].route
    /\ readers[q].op = "list"
    /\ readers' = [readers EXCEPT ![q].pc = "Answered", ![q].status = 200,
                                  ![q].reply = "{items}"]
    /\ UNCHANGED <<env, wire, clock, dirExists, files, outside, reqs, arrivals, lastWrite>>
    /\ UNCHANGED <<verifierVars, viewer, widget>>

\* Lines 16-19: 404 {error:'Not found'} for a falsy item, the item otherwise.
AnswerConversation(q) ==
    /\ readers[q].pc = "Done"
    /\ readers[q].route
    /\ readers[q].op = "get"
    /\ IF Falsy(readers[q].result)
       THEN readers' = [readers EXCEPT ![q].pc = "Answered", ![q].status = 404,
                                       ![q].reply = "{error:'Not found'}"]
       ELSE readers' = [readers EXCEPT ![q].pc = "Answered", ![q].status = 200,
                                       ![q].reply = "item"]
    /\ UNCHANGED <<env, wire, clock, dirExists, files, outside, reqs, arrivals, lastWrite>>
    /\ UNCHANGED <<verifierVars, viewer, widget>>

\* index.ts, lines 18-20: GET /health is answered { ok: true }; the store is
\* not called.
GetHealth(q) ==
    /\ readers[q].pc \in {"Idle", "Answered"}
    /\ readers[q].calls < MaxLookups
    /\ readers' = [readers EXCEPT ![q] =
                    [IdleReader EXCEPT !.pc = "Answered", !.op = "health",
                                       !.route = TRUE, !.status = 200,
                                       !.reply = "{ok:true}",
                                       !.calls = readers[q].calls + 1,
                                       !.quiet = Settled, !.epoch = arrivals]]
    /\ UNCHANGED <<env, wire, clock, dirExists, files, outside, reqs, arrivals, lastWrite>>
    /\ UNCHANGED <<verifierVars, viewer, widget>>

\* null
NullDoc == NullLiteral

\* {"event_timestamp":99}
BareAt99 ==
    << "{", "\"", "e", "v", "e", "n", "t", "_", "t", "i", "m", "e", "s", "t",
       "a", "m", "p", "\"", ":", "9", "9", "}" >>

\* {"type":"post_call_audio","event_timestamp":100,"data":{"conversation_id":"c1"}}
RecordAt100 ==
    << "{", "\"", "t", "y", "p", "e", "\"", ":", "\"", "p", "o", "s", "t",
       "_", "c", "a", "l", "l", "_", "a", "u", "d", "i", "o", "\"", ",",
       "\"", "e", "v", "e", "n", "t", "_", "t", "i", "m", "e", "s", "t", "a",
       "m", "p", "\"", ":", "1", "0", "0", ",", "\"", "d", "a", "t", "a",
       "\"", ":", "{", "\"", "c", "o", "n", "v", "e", "r", "s", "a", "t",
       "i", "o", "n", "_", "i", "d", "\"", ":", "\"", "c", "1", "\"", "}",
       "}" >>

\* {"type":"post_call_audio","event_timestamp":99,"data":{"conversation_id":"c1"}}
RecordAt99 ==
    << "{", "\"", "t", "y", "p", "e", "\"", ":", "\"", "p", "o", "s", "t",
       "_", "c", "a", "l", "l", "_", "a", "u", "d", "i", "o", "\"", ",",
       "\"", "e", "v", "e", "n", "t", "_", "t", "i", "m", "e", "s", "t", "a",
       "m", "p", "\"", ":", "9", "9", ",", "\"", "d", "a", "t", "a", "\"",
       ":", "{", "\"", "c", "o", "n", "v", "e", "r", "s", "a", "t", "i", "o",
       "n", "_", "i", "d", "\"", ":", "\"", "c", "1", "\"", "}", "}" >>

\* {"type":"post_call_audio","event_timestamp":100,"data":{"conversation_id":"c.1"}}
DottedIdDoc ==
    << "{", "\"", "t", "y", "p", "e", "\"", ":", "\"", "p", "o", "s", "t",
       "_", "c", "a", "l", "l", "_", "a", "u", "d", "i", "o", "\"", ",",
       "\"", "e", "v", "e", "n", "t", "_", "t", "i", "m", "e", "s", "t", "a",
       "m", "p", "\"", ":", "1", "0", "0", ",", "\"", "d", "a", "t", "a",
       "\"", ":", "{", "\"", "c", "o", "n", "v", "e", "r", "s", "a", "t",
       "i", "o", "n", "_", "i", "d", "\"", ":", "\"", "c", ".", "1", "\"",
       "}", "}" >>

\* {"type":"post_call_audio","event_timestamp":100,"data":{"conversation_id":"c_1"}}
UnderscoreIdDoc ==
    << "{", "\"", "t", "y", "p", "e", "\"", ":", "\"", "p", "o", "s", "t",
       "_", "c", "a", "l", "l", "_", "a", "u", "d", "i", "o", "\"", ",",
       "\"", "e", "v", "e", "n", "t", "_", "t", "i", "m", "e", "s", "t", "a",
       "m", "p", "\"", ":", "1", "0", "0", ",", "\"", "d", "a", "t", "a",
       "\"", ":", "{", "\"", "c", "o", "n", "v", "e", "r", "s", "a", "t",
       "i", "o", "n", "_", "i", "d", "\"", ":", "\"", "c", "_", "1", "\"",
       "}", "}" >>

\* {"type":"a/../../b","event_timestamp":100}
TraversalDoc ==
    << "{", "\"", "t", "y", "p", "e", "\"", ":", "\"", "a", "/", ".", ".",
       "/", ".", ".", "/", "b", "\"", ",", "\"", "e", "v", "e", "n", "t",
       "_", "t", "i", "m", "e", "s", "t", "a", "m", "p", "\"", ":", "1", "0",
       "0", "}" >>

\* The documents whose payloads the store is asked to save.
StoreDocs ==
    { RecordAt100, RecordAt99, DottedIdDoc, UnderscoreIdDoc, TraversalDoc, EmptyObjectDoc }

\* saveConversationPayload({ payload }) is called.
CallSave(r) ==
    /\ reqs[r].pc \in {"Idle", "Stored", "Rejected"}
    /\ arrivals < MaxSaves
    /\ \E doc \in StoreDocs :
        reqs' = [reqs EXCEPT ![r] =
                    [IdleRequest EXCEPT !.pc = "Classified", !.body = BufferBody(doc),
                                        !.payload = JsonParse(doc).val]]
    /\ arrivals' = arrivals + 1
    /\ UNCHANGED <<env, wire, readers, clock, dirExists, files, outside, lastWrite>>
    /\ UNCHANGED <<verifierVars, viewer, widget>>

\* The call is abandoned where it stands: the process stops, or the pending
\* file operation fails.
Abandon(r) ==
    /\ reqs[r].pc \in {"Classified", "Saving", "Writing"}
    /\ reqs' = [reqs EXCEPT ![r].pc = "Abandoned"]
    /\ UNCHANGED <<env, wire, readers, clock, dirExists, files, outside, arrivals,
                   lastWrite>>
    /\ UNCHANGED <<verifierVars, viewer, widget>>

----------------------------------------------------------------------------
(* ui/App: the transcript viewer's fetch, retry count and polling timer *)

\* const maxRetries = 3
maxRetries == 3

\* AbortSignal.timeout(3000)
FetchTimeoutMs == 3000

\* The base and the cap of the polling interval, in ms.
BaseIntervalMs == 10000
MaxIntervalMs == 30000

\* Time advances in steps of this many ms.
TimeStepMs == 500

\* The fetches one run of the viewer issues.
MaxFetches == 6

\* The two copies of App in the repository; they differ in the filter of
\* the transcript entries.
Builds == {"part_005", "App.tsx"}

\* A plausible slip: the interval without its cap.
PollIntervalUncapped(retryCount) ==
    IF retryCount > 0
    THEN (BaseIntervalMs * Pow(3, retryCount)) \div Pow(2, retryCount)
    ELSE BaseIntervalMs

\* retryCount > 0 ? Math.min(10000 * Math.pow(1.5, retryCount), 30000) : 10000
\* with 1.5^k computed as 3^k / 2^k (exact in floating point for the k reached;
\* the values below the cap, 15000 and 22500, are integers).
PollInterval(retryCount) ==
    IF retryCount > 0
    THEN IF BaseIntervalMs * Pow(3, retryCount) < MaxIntervalMs * Pow(2, retryCount)
         THEN (BaseIntervalMs * Pow(3, retryCount)) \div Pow(2, retryCount)
         ELSE MaxIntervalMs
    ELSE BaseIntervalMs

\* An entry of data.transcript: null, or an object whose role is a string or
\* not and whose message is present or not.
NullEntry == [isObject |-> FALSE, roleIsString |-> FALSE, role |-> "", hasMessage |-> FALSE,
              message |-> ""]
Entry(role, message) ==
    [isObject |-> TRUE, roleIsString |-> TRUE, role |-> role, hasMessage |-> TRUE,
     message |-> message]
EntryWithoutMessage(role) ==
    [isObject |-> TRUE, roleIsString |-> TRUE, role |-> role, hasMessage |-> FALSE,
     message |-> ""]
EntryWithNumericRole ==
    [isObject |-> TRUE, roleIsString |-> FALSE, role |-> "", hasMessage |-> TRUE,
     message |-> "m"]

\* The bodies the backend may answer a fetch with: a transcript (an array or
\* not) and a summary (a string or not).
Responses ==
    { [transcriptIsArray |-> TRUE, transcript |-> <<Entry("agent", "hello")>>,
       summaryIsString |-> TRUE, summary |-> "first call"],
      [transcriptIsArray |-> TRUE,
       transcript |-> <<EntryWithoutMessage("agent"), NullEntry, EntryWithNumericRole,
                        Entry("user", "bye")>>,
       summaryIsString |-> FALSE, summary |-> ""],
      [transcriptIsArray |-> FALSE, transcript |-> <<>>,
       summaryIsString |-> TRUE, summary |-> "no transcript"] }

\* The filter of the transcript entries: part_005 line 87, App.tsx line 35.
KeepsEntry(build, t) ==
    /\ t.isObject
    /\ t.roleIsString
    /\ build = "part_005" => t.hasMessage

\* { role: t.role, message: String(t.message ?? '') }
TurnOf(t) == [role |-> t.role, message |-> IF t.hasMessage THEN t.message ELSE ""]

\* cleanTurns: the entries kept, as turns; [] for a transcript that is not an array.
CleanTurns(build, data) ==
    IF data.transcriptIsArray
    THEN LET kept == SelectSeq(data.transcript, LAMBDA t : KeepsEntry(build, t))
         IN  [i \in 1..Len(kept) |-> TurnOf(kept[i])] \o <<>>
    ELSE <<>>

\* The summary state: a string or null.
NullSummary == [isNull |-> TRUE, text |-> ""]

\* typeof s === 'string' ? s : null
SummaryOf(data) ==
    IF data.summaryIsString THEN [isNull |-> FALSE, text |-> data.summary]
    ELSE NullSummary

\* No fetch has succeeded yet.
NoResponse == [any |-> FALSE, transcriptIsArray |-> FALSE, transcript |-> <<>>,
               summaryIsString |-> FALSE, summary |-> ""]

\* The component before it is mounted: the initial values of useState and
\* useRef.  issued, since, streak, recovered and lastGood record the history:
\* the fetches issued, the ms since the last fetch completed (counted up to
\* the cap of the interval), the failures since the last success, whether a
\* success has followed a failure, and the body of the last successful fetch.
Unmounted(build) ==
    [build |-> build, mounted |-> FALSE, retryCount |-> 0, turns |-> <<>>,
     summary |-> NullSummary, cache |-> [turns |-> <<>>, summary |-> NullSummary],
     loading |-> FALSE, error |-> "", effectPending |-> FALSE,
     timerSet |-> FALSE, timerLeft |-> 0, interval |-> 0, timerClosure |-> 0,
     inflight |-> <<>>, issued |-> 0, since |-> 0, streak |-> 0,
     recovered |-> FALSE, lastGood |-> NoResponse]

IdleViewer == Unmounted("App.tsx")

\* fetchLatest() up to its await: setLoading(true), setError(null) and the
\* request sent; the closure holds the retryCount of the render that made it.
fetchLatest(v, closureRetryCount) ==
    [v EXCEPT !.loading = TRUE, !.error = "",
              !.inflight = Append(@, [retryCount |-> closureRetryCount, age |-> 0]),
              !.issued = @ + 1]

\* The effect: fetchLatest(), then setInterval(fetchLatest, interval) with the
\* fetchLatest and the retryCount of the current render.
RunEffectOn(v) ==
    [fetchLatest(v, v.retryCount) EXCEPT
        !.timerSet = TRUE, !.interval = PollInterval(v.retryCount),
        !.timerLeft = PollInterval(v.retryCount), !.timerClosure = v.retryCount,
        !.effectPending = FALSE]

\* The first render commits and its effect runs.
Mount ==
    /\ ~viewer.mounted
    /\ viewer' = [RunEffectOn(viewer) EXCEPT !.mounted = TRUE]
    /\ UNCHANGED <<serverVars, verifierVars, widget>>

\* retryCount (and with it fetchLatest) changed: the re-render's effect runs,
\* after the cleanup of the previous one (clearInterval).
RunEffect ==
    /\ viewer.mounted
    /\ viewer.effectPending
    /\ viewer.issued < MaxFetches
    /\ viewer' = RunEffectOn(viewer)
    /\ UNCHANGED <<serverVars, verifierVars, widget>>

\* The interval elapses: the fetchLatest given to setInterval is called.
TimerFires ==
    /\ viewer.mounted
    /\ viewer.timerSet
    /\ ~viewer.effectPending
    /\ viewer.timerLeft <= 0
    /\ viewer.issued < MaxFetches
    /\ viewer' = [fetchLatest(viewer, viewer.timerClosure) EXCEPT
                    !.timerLeft = viewer.interval]
    /\ UNCHANGED <<serverVars, verifierVars, widget>>

\* The Refresh button, onClick={fetchLatest} disabled={loading}: the
\* fetchLatest of the current render is called; the button cannot be pressed
\* while loading is true.
ManualRefresh ==
    /\ viewer.mounted
    /\ ~viewer.effectPending
    /\ ~viewer.loading
    /\ viewer.issued < MaxFetches
    /\ viewer' = fetchLatest(viewer, viewer.retryCount)
    /\ UNCHANGED <<serverVars, verifierVars, widget>>

\* A plausible slip: the retry count is left as it is on success.
RetryAfterSuccessKept(prev) == prev

\* setRetryCount(0)
RetryAfterSuccess(prev) == 0

\* setRetryCount(prev => prev + 1)
RetryAfterFailure(prev) == prev + 1

\* A plausible slip: the display is cleared while the retries last.
ShownAfterFailureCleared(shown, cached, closureRetryCount) ==
    IF closureRetryCount >= maxRetries THEN cached
    ELSE [turns |-> <<>>, summary |-> NullSummary]

\* if (retryCount >= maxRetries) { setTurns(cache.turns); setSummary(cache.summary) }
ShownAfterFailure(shown, cached, closureRetryCount) ==
    IF closureRetryCount >= maxRetries THEN cached ELSE shown

\* The sequence without its i-th element.
Without(seq, i) == SubSeq(seq, 1, i - 1) \o SubSeq(seq, i + 1, Len(seq))

\* The fetch resolves with an OK response whose body parses: the try block
\* from line 81 on, then finally.
FetchSucceeds ==
    /\ viewer.mounted
    /\ \E i \in 1..Len(viewer.inflight) : \E data \in Responses :
        LET cleanTurns == CleanTurns(viewer.build, data)
            s == SummaryOf(data)
            next == RetryAfterSuccess(viewer.retryCount)
        IN  viewer' = [viewer EXCEPT
                !.turns = cleanTurns, !.summary = s,
                !.cache = [turns |-> cleanTurns, summary |-> s],
                !.retryCount = next,
                !.effectPending = @ \/ next # viewer.retryCount,
                !.loading = FALSE,
                !.inflight = Without(@, i),
                !.since = 0, !.streak = 0,
                !.recovered = @ \/ viewer.streak > 0,
                !.lastGood = [any |-> TRUE, transcriptIsArray |-> data.transcriptIsArray,
                              transcript |-> data.transcript,
                              summaryIsString |-> data.summaryIsString,
                              summary |-> data.summary]]
    /\ UNCHANGED <<serverVars, verifierVars, widget>>

\* The ways a fetch fails: a response that is not OK, a network error, a body
\* that is not JSON, and the abort after 3 s.
FailureCauses == {"Backend error", "Failed to fetch", "Unexpected token", "signal timed out"}

\* The fetch fails: the catch block, then finally.
FetchFails ==
    /\ viewer.mounted
    /\ \E i \in 1..Len(viewer.inflight) : \E cause \in FailureCauses :
        LET f == viewer.inflight[i]
            shown == ShownAfterFailure([turns |-> viewer.turns, summary |-> viewer.summary],
                                       viewer.cache, f.retryCount)
            next == RetryAfterFailure(viewer.retryCount)
        IN  /\ cause = "signal timed out" <=> f.age >= FetchTimeoutMs
            /\ viewer' = [viewer EXCEPT
                    !.error = cause,
                    !.retryCount = next,
                    !.effectPending = @ \/ next # viewer.retryCount,
                    !.turns = shown.turns, !.summary = shown.summary,
                    !.loading = FALSE,
                    !.inflight = Without(@, i),
                    !.since = 0, !.streak = @ + 1]
    /\ UNCHANGED <<serverVars, verifierVars, widget>>

\* Time passes while no effect is waiting to run, no timer is due and no
\* fetch is at its timeout.
TimePasses ==
    /\ viewer.mounted
    /\ ~viewer.effectPending
    /\ viewer.timerLeft > 0
    /\ \A i \in 1..Len(viewer.inflight) :
        viewer.inflight[i].age + TimeStepMs <= FetchTimeoutMs
    /\ viewer' = [viewer EXCEPT
            !.timerLeft = @ - TimeStepMs,
            !.inflight = [i \in 1..Len(@) |-> [@[i] EXCEPT !.age = @ + TimeStepMs]] \o <<>>,
            !.since = IF @ + TimeStepMs > MaxIntervalMs THEN @ ELSE @ + TimeStepMs]
    /\ UNCHANGED <<serverVars, verifierVars, widget>>

----------------------------------------------------------------------------
(* components/Conversation: the call widget's transcript polling *)

\* setInterval(pollTranscript, 10000)
PollIntervalMs == 10000

\* The polls one run of the widget issues.
MaxPolls == 4

\* The widget before it is mounted: the initial values of useState.  polls is
\* the number of polls in flight; issued, failures and sincePoll record the
\* history: the polls issued, those that failed, and the ms since the last
\* poll was issued.
IdleWidget ==
    [mounted |-> FALSE, unmounted |-> FALSE, error |-> "", isAnimating |-> FALSE,
     transcript |-> <<>>, transcriptSummary |-> NullSummary,
     timerSet |-> FALSE, timerLeft |-> 0, polls |-> 0,
     issued |-> 0, failures |-> 0, sincePoll |-> 0]

\* pollTranscript() up to its await fetch(...).
pollTranscript(w) == [w EXCEPT !.polls = @ + 1, !.issued = @ + 1, !.sincePoll = 0]

\* The effect of the first render: pollTranscript(), then
\* setInterval(pollTranscript, 10000).
WidgetMount ==
    /\ ~widget.mounted
    /\ ~widget.unmounted
    /\ widget' = [pollTranscript(widget) EXCEPT
                    !.mounted = TRUE, !.timerSet = TRUE, !.timerLeft = PollIntervalMs]
    /\ UNCHANGED <<serverVars, verifierVars, viewer>>

\* The interval elapses: pollTranscript is called again.
PollTick ==
    /\ widget.timerSet
    /\ widget.timerLeft <= 0
    /\ widget.issued < MaxPolls
    /\ widget' = [pollTranscript(widget) EXCEPT !.timerLeft = PollIntervalMs]
    /\ UNCHANGED <<serverVars, verifierVars, viewer>>

\* Lines 59-66: the response is OK and its body is an object: the transcript
\* (an array, or []) and the summary (a string, or null) are set.  React
\* drops the updates of a component that is no longer mounted.
PollSucceeds ==
    /\ widget.polls > 0
    /\ \E data \in Responses :
        widget' = [widget EXCEPT
            !.polls = @ - 1,
            !.transcript = IF ~widget.mounted THEN @
                           ELSE IF data.transcriptIsArray THEN data.transcript ELSE <<>>,
            !.transcriptSummary = IF ~widget.mounted THEN @ ELSE SummaryOf(data)]
    /\ UNCHANGED <<serverVars, verifierVars, viewer>>

\* The ways a poll fails: fetch rejects, the response is not OK, the body is
\* not JSON, or it is null, so that data.transcript throws a TypeError.
PollFailures == {"fetch rejects", "not ok", "not JSON", "null body"}

\* A plausible slip: the failure is shown, as the viewer shows it.
PollFailsLoudly ==
    /\ widget.polls > 0
    /\ \E cause \in PollFailures :
        widget' = [widget EXCEPT !.polls = @ - 1, !.failures = @ + 1, !.error = cause]
    /\ UNCHANGED <<serverVars, verifierVars, viewer>>

\* Lines 59 and 67-70: a response that is not OK is passed over, an exception
\* is logged; no state is set.
PollFails ==
    /\ widget.polls > 0
    /\ \E cause \in PollFailures :
        widget' = [widget EXCEPT !.polls = @ - 1, !.failures = @ + 1]
    /\ UNCHANGED <<serverVars, verifierVars, viewer>>

\* Lines 93-97: the conversation reports an error.
OnError ==
    /\ widget.mounted
    /\ widget.error = ""
    /\ widget' = [widget EXCEPT !.error = "An error occurred", !.isAnimating = FALSE]
    /\ UNCHANGED <<serverVars, verifierVars, viewer>>

\* Lines 81-85: the conversation connects.
OnConnect ==
    /\ widget.mounted
    /\ ~widget.isAnimating
    /\ widget' = [widget EXCEPT !.error = "", !.isAnimating = TRUE]
    /\ UNCHANGED <<serverVars, verifierVars, viewer>>

\* Line 77: the cleanup of the effect, clearInterval(interval).
WidgetUnmount ==
    /\ widget.mounted
    /\ widget' = [widget EXCEPT !.mounted = FALSE, !.unmounted = TRUE, !.timerSet = FALSE]
    /\ UNCHANGED <<serverVars, verifierVars, viewer>>

\* Time passes while no timer is due.
WidgetTimePasses ==
    /\ widget.timerSet
    /\ widget.timerLeft > 0
    /\ widget' = [widget EXCEPT !.timerLeft = @ - TimeStepMs,
                                !.sincePoll = @ + TimeStepMs]
    /\ UNCHANGED <<serverVars, verifierVars, viewer>>

----------------------------------------------------------------------------
(* Initial states and specifications *)

IdleVerifier ==
    /\ vArgs = [rawBody |-> NotABuffer, signature |-> <<>>, timestamp |-> <<>>,
                secret |-> <<>>]
    /\ vNow = 0
    /\ vResult = "none"
    /\ vBase = "none"
    /\ vTampered = "none"
    /\ vExamined = 0

Init ==
    /\ env \in Environments
    /\ wire = Deliveries
    /\ clock \in ClockStart
    /\ dirExists = FALSE
    /\ files = <<>>
    /\ outside = {}
    /\ reqs = [r \in Slots |-> IdleRequest]
    /\ arrivals = 0
    /\ readers = [q \in ReaderSlots |-> IdleReader]
    /\ lastWrite = Undefined
    /\ IdleVerifier
    /\ viewer = IdleViewer
    /\ widget = IdleWidget

Next ==
    \/ \E r \in Slots :
        \/ Arrive(r) \/ Verify(r) \/ Parse(r) \/ Classify(r)
        \/ EnsureDir(r) \/ OpenFile(r) \/ WriteFile(r) \/ Acknowledge(r)
    \/ Tick

Spec == Init /\ [][Next]_vars

\* A timestamp header that is not a number.
NonNumericTimestamp == <<"a", "b", "c">>

\* Deliveries that fail one check of the verification each, with the genuine
\* delivery they are derived from: no signature header, no timestamp header,
\* a timestamp that is not a number, a stale timestamp, a digest made with
\* another key, a digest two hex digits short, and a digest made with another
\* key on a request whose body express.raw did not capture (no Content-Type).
AuthDeliveries ==
    LET genuine == Signed(TranscriptionDoc, FreshTimestamp, TheSecret)
        forged == Signed(TranscriptionDoc, FreshTimestamp, OtherSecret)
    IN  { genuine,
          [genuine EXCEPT !.signature = <<>>],
          [genuine EXCEPT !.timestamp = <<>>],
          Signed(TranscriptionDoc, NonNumericTimestamp, TheSecret),
          Signed(TranscriptionDoc, StaleTimestamp, TheSecret),
          forged,
          [genuine EXCEPT !.signature = SubSeq(@, 1, Len(@) - 2)],
          [forged EXCEPT !.body = ObjectBody],
          [forged EXCEPT !.body = UndefinedBody] }

\* The route with WEBHOOK_SECRET set, receiving the deliveries above.
AuthInit ==
    /\ env = [WEBHOOK_SECRET |-> TheSecret, ELEVENLABS_CONVAI_WEBHOOK_SECRET |-> <<>>]
    /\ wire = AuthDeliveries
    /\ clock \in ClockStart
    /\ dirExists = FALSE
    /\ files = <<>>
    /\ outside = {}
    /\ reqs = [r \in Slots |-> IdleRequest]
    /\ arrivals = 0
    /\ readers = [q \in ReaderSlots |-> IdleReader]
    /\ lastWrite = Undefined
    /\ IdleVerifier
    /\ viewer = IdleViewer
    /\ widget = IdleWidget

SpecAuth == AuthInit /\ [][Next]_vars

IdleServer ==
    /\ env = [WEBHOOK_SECRET |-> <<>>, ELEVENLABS_CONVAI_WEBHOOK_SECRET |-> <<>>]
    /\ wire = {}
    /\ clock = 0
    /\ dirExists = FALSE
    /\ files = <<>>
    /\ outside = {}
    /\ reqs = [r \in Slots |-> IdleRequest]
    /\ arrivals = 0
    /\ readers = [q \in ReaderSlots |-> IdleReader]
    /\ lastWrite = Undefined
    /\ viewer = IdleViewer
    /\ widget = IdleWidget

\* The store with its callers: saves and retrieval calls on an empty directory.
StoreInit ==
    /\ env = [WEBHOOK_SECRET |-> <<>>, ELEVENLABS_CONVAI_WEBHOOK_SECRET |-> <<>>]
    /\ wire = {}
    /\ clock \in ClockStart
    /\ dirExists = FALSE
    /\ files = <<>>
    /\ outside = {}
    /\ reqs = [r \in Slots |-> IdleRequest]
    /\ arrivals = 0
    /\ readers = [q \in ReaderSlots |-> IdleReader]
    /\ lastWrite = Undefined
    /\ IdleVerifier
    /\ viewer = IdleViewer
    /\ widget = IdleWidget

StoreNext ==
    \/ \E r \in Slots :
        \/ CallSave(r) \/ EnsureDir(r) \/ OpenFile(r) \/ WriteFile(r) \/ Abandon(r)
    \/ \E q \in ReaderSlots :
        \/ getAllConversations(q) \/ getConversationById(q) \/ ReadDir(q) \/ ReadFile(q)

SpecStore == StoreInit /\ [][StoreNext]_vars

\* The saves alone: saveConversationPayload called with no retrieval running
\* and no call abandoned.
SaveNext ==
    \E r \in Slots :
        \/ CallSave(r) \/ EnsureDir(r) \/ OpenFile(r) \/ WriteFile(r)

SpecSave == StoreInit /\ [][SaveNext]_vars

\* What the platform delivers to a deployment that also serves retrieval:
\* fresh, correctly signed documents.
RouteDeliveries ==
    { Signed(b, FreshTimestamp, TheSecret) :
        b \in {TranscriptionDoc, OtherTypeDoc, DottedIdDoc, NullDoc, BareAt99} }

\* The backend with both routers mounted and WEBHOOK_SECRET set.
RouteInit ==
    /\ env = [WEBHOOK_SECRET |-> TheSecret, ELEVENLABS_CONVAI_WEBHOOK_SECRET |-> <<>>]
    /\ wire = RouteDeliveries
    /\ clock \in ClockStart
    /\ dirExists = FALSE
    /\ files = <<>>
    /\ outside = {}
    /\ reqs = [r \in Slots |-> IdleRequest]
    /\ arrivals = 0
    /\ readers = [q \in ReaderSlots |-> IdleReader]
    /\ lastWrite = Undefined
    /\ IdleVerifier
    /\ viewer = IdleViewer
    /\ widget = IdleWidget

RouteNext ==
    \/ \E r \in Slots :
        \/ Arrive(r) \/ Verify(r) \/ Parse(r) \/ Classify(r)
        \/ EnsureDir(r) \/ OpenFile(r) \/ WriteFile(r) \/ Acknowledge(r)
    \/ \E q \in ReaderSlots :
        \/ GetConversations(q) \/ GetConversation(q) \/ ReadDir(q) \/ ReadFile(q)
        \/ AnswerConversations(q) \/ AnswerConversation(q)

SpecRoutes == RouteInit /\ [][RouteNext]_vars

\* The whole backend of index.ts: the health check, the webhook and the
\* retrieval routes, serving a delivery with an event_timestamp and one
\* without.
ServeDeliveries ==
    { Signed(b, FreshTimestamp, TheSecret) : b \in {TranscriptionDoc, EmptyObjectDoc} }

ServeInit ==
    /\ env = [WEBHOOK_SECRET |-> TheSecret, ELEVENLABS_CONVAI_WEBHOOK_SECRET |-> <<>>]
    /\ wire = ServeDeliveries
    /\ clock \in ClockStart
    /\ dirExists = FALSE
    /\ files = <<>>
    /\ outside = {}
    /\ reqs = [r \in Slots |-> IdleRequest]
    /\ arrivals = 0
    /\ readers = [q \in ReaderSlots |-> IdleReader]
    /\ lastWrite = Undefined
    /\ IdleVerifier
    /\ viewer = IdleViewer
    /\ widget = IdleWidget

ServeNext ==
    \/ \E r \in Slots :
        \/ Arrive(r) \/ Verify(r) \/ Parse(r) \/ Classify(r)
        \/ EnsureDir(r) \/ OpenFile(r) \/ WriteFile(r) \/ Acknowledge(r)
    \/ \E q \in ReaderSlots :
        \/ GetHealth(q) \/ GetConversations(q) \/ GetConversation(q)
        \/ ReadDir(q) \/ ReadFile(q)
        \/ AnswerConversations(q) \/ AnswerConversation(q)

SpecServe == ServeInit /\ [][ServeNext]_vars

\* The file the store writes for the document at Date.now() = nowMs.
RecordFile(doc, nowMs) ==
    LET payload == JsonParse(doc).val
    IN  [name |-> getFilename(payload, nowMs), content |-> Stringify(payload, 0)]

\* Files put into DATA_DIR by something other than the store: a text that is
\* not JSON under a .json name, a record cut short, and a file of another
\* suffix.
ForeignFiles ==
    { [name |-> <<"n", "o", "t", "e", "s", ".", "j", "s", "o", "n">>,
       content |-> <<"o", "o", "p", "s">>],
      [name |-> <<"2", "0", "0", "_", "c", "u", "t", ".", "j", "s", "o", "n">>,
       content |-> TruncatedDoc],
      [name |-> <<"r", "e", "a", "d", "m", "e", ".", "t", "x", "t">>,
       content |-> <<"h", "i">>] }

\* The directory holding the given files.
DirectoryOf(entries) ==
    [name \in {e.name : e \in entries} |->
        (CHOOSE e \in entries : e.name = name).content]

\* The contents DATA_DIR may have when a listing is called: records the
\* store wrote earlier, with or without foreign files among them.
Directories ==
    { DirectoryOf(stored \cup foreign) :
        stored \in SUBSET {RecordFile(doc, 300000) :
                              doc \in {RecordAt100, RecordAt99, EmptyObjectDoc}},
        foreign \in SUBSET ForeignFiles }

ReadInit ==
    /\ env = [WEBHOOK_SECRET |-> <<>>, ELEVENLABS_CONVAI_WEBHOOK_SECRET |-> <<>>]
    /\ wire = {}
    /\ clock \in ClockStart
    /\ dirExists = TRUE
    /\ files \in Directories
    /\ outside = {}
    /\ reqs = [r \in Slots |-> IdleRequest]
    /\ arrivals = 0
    /\ readers = [q \in ReaderSlots |-> IdleReader]
    /\ lastWrite = Undefined
    /\ IdleVerifier
    /\ viewer = IdleViewer
    /\ widget = IdleWidget

ReadNext ==
    \E q \in ReaderSlots : getAllConversations(q) \/ ReadDir(q) \/ ReadFile(q)

\* Listings of a directory no save is writing to.
SpecRead == ReadInit /\ [][ReadNext]_vars

\* The viewer alone, built from either copy of App.
ViewerInit ==
    /\ env = [WEBHOOK_SECRET |-> <<>>, ELEVENLABS_CONVAI_WEBHOOK_SECRET |-> <<>>]
    /\ wire = {}
    /\ clock = 0
    /\ dirExists = FALSE
    /\ files = <<>>
    /\ outside = {}
    /\ reqs = [r \in Slots |-> IdleRequest]
    /\ arrivals = 0
    /\ readers = [q \in ReaderSlots |-> IdleReader]
    /\ lastWrite = Undefined
    /\ IdleVerifier
    /\ viewer \in {Unmounted(build) : build \in Builds}
    /\ widget = IdleWidget

ViewerNext ==
    \/ Mount \/ RunEffect \/ TimerFires \/ FetchSucceeds \/ FetchFails \/ TimePasses

SpecViewer == ViewerInit /\ [][ViewerNext]_vars

\* The viewer with its Refresh button in use.
RefreshNext ==
    \/ Mount \/ RunEffect \/ TimerFires \/ ManualRefresh
    \/ FetchSucceeds \/ FetchFails \/ TimePasses

SpecRefresh == ViewerInit /\ [][RefreshNext]_vars

\* The call widget alone.
WidgetInit ==
    /\ env = [WEBHOOK_SECRET |-> <<>>, ELEVENLABS_CONVAI_WEBHOOK_SECRET |-> <<>>]
    /\ wire = {}
    /\ clock = 0
    /\ dirExists = FALSE
    /\ files = <<>>
    /\ outside = {}
    /\ reqs = [r \in Slots |-> IdleRequest]
    /\ arrivals = 0
    /\ readers = [q \in ReaderSlots |-> IdleReader]
    /\ lastWrite = Undefined
    /\ IdleVerifier
    /\ viewer = IdleViewer
    /\ widget = IdleWidget

WidgetNext ==
    \/ WidgetMount \/ PollTick \/ PollSucceeds \/ PollFails \/ OnError \/ OnConnect
    \/ WidgetUnmount \/ WidgetTimePasses

SpecWidget == WidgetInit /\ [][WidgetNext]_vars

\* What reaches a deployment with the secret set, deliveries repeated: signed
\* documents of a known type, of another type, without event_timestamp, with
\* a type that holds path separators, and cut short; a forged one, one whose
\* body the parser did not capture, and one whose body exceeds the parser's
\* limit.
IngestDeliveries ==
    { Signed(b, FreshTimestamp, TheSecret) :
        b \in {TranscriptionDoc, OtherTypeDoc, EmptyObjectDoc, TraversalDoc, SlashTypeDoc,
               TruncatedDoc} }
    \cup { Signed(TranscriptionDoc, FreshTimestamp, OtherSecret),
           [Signed(<<>>, FreshTimestamp, TheSecret) EXCEPT !.body = ObjectBody],
           [Signed(AudioDoc, FreshTimestamp, TheSecret) EXCEPT !.body = OversizeBody] }

IngestInit ==
    /\ env = [WEBHOOK_SECRET |-> TheSecret, ELEVENLABS_CONVAI_WEBHOOK_SECRET |-> <<>>]
    /\ wire = IngestDeliveries
    /\ clock \in ClockStart
    /\ dirExists = FALSE
    /\ files = <<>>
    /\ outside = {}
    /\ reqs = [r \in Slots |-> IdleRequest]
    /\ arrivals = 0
    /\ readers = [q \in ReaderSlots |-> IdleReader]
    /\ lastWrite = Undefined
    /\ IdleVerifier
    /\ viewer = IdleViewer
    /\ widget = IdleWidget

IngestNext ==
    \/ \E r \in Slots :
        \/ Arrive(r) \/ RefuseBody(r) \/ Verify(r) \/ Parse(r) \/ Classify(r)
        \/ EnsureDir(r) \/ OpenFile(r) \/ WriteFile(r) \/ Acknowledge(r)
    \/ Tick

SpecIngest == IngestInit /\ [][IngestNext]_vars

----------------------------------------------------------------------------
(* Verifier harness: verifySignature applied to arguments drawn from bounded sets *)

\* The longest timestamp header enumerated character by character.
MaxTsLen == 3

SeqsUpTo(S, n) == UNION {[1..k -> S] : k \in 0..n}

\* Digits, the decimal point, the exponent and radix markers, sign and blank.
TsChars == {"0", "6", "e", ".", "x", "-", " "}

\* Literals longer than MaxTsLen: the infinities, an overflowing exponent,
\* text, and integers at and around the window's edges.
TsLiterals ==
    { InfinityLiteral, <<"-">> \o InfinityLiteral, <<"6", "e", "6", "6", "6">>,
      <<"n", "o", "w">>, <<"0", "x", "2", "5", "8">>, <<"6", "0", "0", ".", "5">>,
      <<"5", "9", "9">>, <<"6", "0", "1">>, <<"3", "0", "0">> }

TsHeaders == SeqsUpTo(TsChars, MaxTsLen) \cup TsLiterals

\* Timestamps the sender signs with.
SenderTimestamps == { <<"0">>, <<"6", "0", "0">>, <<"6", "e", "2">>, <<"3", "0", "0">> }

\* The verifier's clock, in whole seconds.
Nows == {299, 300, 301}

VerifySecrets == { <<>>, TheSecret }

VerifyBodies == { BufferOf(<<>>), BufferOf(<<"{", "}">>), BufferOf(<<"6">>), NotABuffer }

ToUpper(c) ==
    IF \E i \in 11..16 : LowerHex[i] = c
    THEN UpperHex[CHOOSE i \in 11..16 : LowerHex[i] = c]
    ELSE c

UpperCase(s) == [i \in 1..Len(s) |-> ToUpper(s[i])]

\* What the sender puts in the signature header for (body, timestamp, key).
SenderHex(body, timestamp, key) == ExpectedHex(BufferOf(body.bytes), timestamp, key)

\* Ways a header carries (or mangles) a hex digest.
SignatureForms(hex) ==
    { hex, Sha256Prefix \o hex, UpperCase(hex), hex \o <<"0">>, hex \o <<"z", "z">>,
      SubSeq(hex, 1, Len(hex) - 1), SubSeq(hex, 1, Len(hex) - 2),
      <<"0", "0">> \o hex, Sha256Prefix \o Sha256Prefix \o hex }

\* Headers that carry no digest.
BareSignatures == { <<>>, Sha256Prefix, <<"z", "z">> }

\* Digests signed for this request, or for another body, key or timestamp.
SignedDigests(body, timestamp, secret) ==
    { SenderHex(body, timestamp, IF secret = <<>> THEN OtherSecret ELSE secret),
      SenderHex(body, timestamp, OtherSecret),
      SenderHex(BufferOf(<<"7">>), timestamp, secret),
      SenderHex(body, <<"6", "0", "1">>, secret) }

VInit ==
    /\ IdleServer
    /\ vNow \in Nows
    /\ vResult = "none"
    /\ vBase = "none"
    /\ vTampered = "none"
    /\ vExamined = 0
    /\ \E body \in VerifyBodies, secret \in VerifySecrets :
        \/ \E timestamp \in TsHeaders :
            \E signature \in
                    { SenderHex(body, timestamp, secret),
                      Sha256Prefix \o SenderHex(body, timestamp, secret),
                      SenderHex(body, timestamp, OtherSecret), <<>> } :
                vArgs = [rawBody |-> body, signature |-> signature,
                         timestamp |-> timestamp, secret |-> secret]
        \/ \E timestamp \in SenderTimestamps :
            \E signature \in BareSignatures \cup
                    UNION {SignatureForms(h) : h \in SignedDigests(body, timestamp, secret)} :
                vArgs = [rawBody |-> body, signature |-> signature,
                         timestamp |-> timestamp, secret |-> secret]

\* The call: verifySignature({ rawBody, signature, timestamp, secret }).
VerifyCall ==
    /\ vResult = "none"
    /\ vResult' = verifySignature(vArgs.rawBody, vArgs.signature, vArgs.timestamp,
                                  vArgs.secret, DefaultMaxSkewSeconds, vNow)
    /\ vExamined' = BytesExamined(vArgs.rawBody, vArgs.signature, vArgs.timestamp,
                                  vArgs.secret, DefaultMaxSkewSeconds, vNow)
    /\ UNCHANGED <<vArgs, vNow, vBase, vTampered>>
    /\ UNCHANGED <<serverVars, viewer, widget>>

VNext == VerifyCall

SpecVerify == VInit /\ [][VNext]_vars

----------------------------------------------------------------------------
(* Tamper harness: an accepted call, then one byte of one argument changed *)

\* The bytes a tampered position may be changed to.
TamperChars == {"0", "6", "7", "a", "A", "f", "F", "g", "e", ".", "=", "}"}

TamperNows == {300}

TInit ==
    /\ IdleServer
    /\ vNow \in TamperNows
    /\ vResult = "none"
    /\ vBase = "none"
    /\ vTampered = "none"
    /\ vExamined = 0
    /\ \E body \in VerifyBodies, timestamp \in SenderTimestamps :
        \E signature \in
                { SenderHex(body, timestamp, TheSecret),
                  Sha256Prefix \o SenderHex(body, timestamp, TheSecret),
                  SenderHex(body, timestamp, OtherSecret) } :
            vArgs = [rawBody |-> body, signature |-> signature,
                     timestamp |-> timestamp, secret |-> TheSecret]

\* s with the character at position i replaced by c.
ReplaceAt(s, i, c) == [s EXCEPT ![i] = c]

TamperBody ==
    /\ vResult = "true" /\ vTampered = "none"
    /\ \E i \in 1..Len(vArgs.rawBody.bytes), c \in TamperChars :
        /\ c # vArgs.rawBody.bytes[i]
        /\ vArgs' = [vArgs EXCEPT !.rawBody = BufferOf(ReplaceAt(@.bytes, i, c))]
    /\ vBase' = vArgs
    /\ vTampered' = "body"
    /\ vResult' = "none"
    /\ vExamined' = 0
    /\ UNCHANGED vNow
    /\ UNCHANGED <<serverVars, viewer, widget>>

TamperTimestamp ==
    /\ vResult = "true" /\ vTampered = "none"
    /\ \E i \in 1..Len(vArgs.timestamp), c \in TamperChars :
        /\ c # vArgs.timestamp[i]
        /\ vArgs' = [vArgs EXCEPT !.timestamp = ReplaceAt(@, i, c)]
    /\ vBase' = vArgs
    /\ vTampered' = "timestamp"
    /\ vResult' = "none"
    /\ vExamined' = 0
    /\ UNCHANGED vNow
    /\ UNCHANGED <<serverVars, viewer, widget>>

TamperSignature ==
    /\ vResult = "true" /\ vTampered = "none"
    /\ \E i \in 1..Len(vArgs.signature), c \in TamperChars :
        /\ c # vArgs.signature[i]
        /\ vArgs' = [vArgs EXCEPT !.signature = ReplaceAt(@, i, c)]
    /\ vBase' = vArgs
    /\ vTampered' = "signature"
    /\ vResult' = "none"
    /\ vExamined' = 0
    /\ UNCHANGED vNow
    /\ UNCHANGED <<serverVars, viewer, widget>>

TNext == VerifyCall \/ TamperBody \/ TamperTimestamp \/ TamperSignature

SpecTamper == TInit /\ [][TNext]_vars

----------------------------------------------------------------------------
(* Claims about the ingestion route, checked under Spec *)

\* What verifySignature returns for request r if the handler calls it now.
VerdictNow(r) ==
    verifySignature(RawBodyOf(reqs[r].body), reqs[r].signature, reqs[r].timestamp,
                    env.WEBHOOK_SECRET, DefaultMaxSkewSeconds, clock)

\* The request on connection r takes a step of its handler.
Steps(r) == reqs'[r].pc # reqs[r].pc

\* Request r is answered with the status, having written nothing, and the
\* step that answers it leaves every stored record as it was.
RejectedUntouched(r, status) ==
    /\ reqs'[r].pc = "Rejected"
    /\ reqs'[r].status = status
    /\ reqs'[r].writes = 0
    /\ files' = files
    /\ outside' = outside
    /\ dirExists' = dirExists

\* C1: with a secret configured, a request for which verifySignature returns
\* false is answered 401, and from its arrival to its answer it has written
\* nothing: the stored records, names and contents, are what they were.
C1_FalseVerdictIs401AndNoWrite ==
    [][\A r \in Slots :
        (/\ reqs[r].pc = "Received"
         /\ env.WEBHOOK_SECRET # <<>>
         /\ VerdictNow(r) = "false"
         /\ Steps(r))
        => RejectedUntouched(r, 401)]_vars

\* A delivery signed with another key is answered 401 while a record stored
\* earlier is on disk.
C1_WitnessForgedAfterStore ==
    \E r \in Slots :
        /\ reqs[r].pc = "Rejected"
        /\ reqs[r].status = 401
        /\ reqs[r].signature # <<>>
        /\ reqs[r].timestamp = FreshTimestamp
        /\ files # <<>>

C3_InvalidJsonIs400AndNoWrite ==
    [][\A r \in Slots :
        (/\ reqs[r].pc = "Verified"
         /\ ~JsonParse(RawBodyOf(reqs[r].body).bytes).ok
         /\ Steps(r))
        => RejectedUntouched(r, 400)]_vars

\* A correctly signed truncated document has been answered 400.
C3_WitnessTruncatedIs400 ==
    \E r \in Slots :
        /\ reqs[r].pc = "Rejected"
        /\ reqs[r].status = 400
        /\ reqs[r].body = BufferBody(TruncatedDoc)
        /\ reqs[r].writes = 0

\* The record of request r is in DATA_DIR under the name getFilename gives it.
Persisted(r) ==
    /\ InDataDir(reqs[r].target)
    /\ reqs[r].target.segs[Len(reqs[r].target.segs)] \in DOMAIN files
    /\ reqs[r].writes = 2

\* C4: every verified, parseable payload is persisted and acknowledged: a
\* request that has been parsed is never rejected, and it is answered 200
\* {ok:true} for the two known types and 202 {status:ignored,
\* reason:unknown_type} for any other type, with its record stored.
C4_ParsedIsStoredAndAcknowledged ==
    \A r \in Slots :
        reqs[r].payload.t # "undef" =>
            /\ reqs[r].pc # "Rejected"
            /\ reqs[r].pc = "Acknowledged" =>
                /\ Persisted(r)
                /\ IF /\ Get(reqs[r].payload, TypeKey).t = "str"
                      /\ Get(reqs[r].payload, TypeKey).s \in KnownTypes
                   THEN reqs[r].status = 200 /\ reqs[r].reply = "{ok:true}"
                   ELSE /\ reqs[r].status = 202
                        /\ reqs[r].reply = "{status:'ignored',reason:'unknown_type'}"

\* The gates in the order the handler passes them; Saving and Writing are
\* the two steps of storing (the directory is ensured, the file is open).
GateOrder ==
    <<"Received", "Verified", "Parsed", "Classified", "Saving", "Writing", "Stored",
      "Acknowledged">>

GateIndex(pc) == CHOOSE i \in 1..Len(GateOrder) : GateOrder[i] = pc

\* C5: a request moves from each gate to the next one or to Rejected, and a
\* connection takes a new request only when idle or answered; the body is
\* parsed only by a verified request whose signature verifies, and only a
\* request that was verified and parsed changes the stored records.
C5_GatesInOrder ==
    [][/\ \A r \in Slots :
            reqs'[r].pc # reqs[r].pc =>
                \/ /\ reqs[r].pc \in {"Idle", "Acknowledged", "Rejected"}
                   /\ reqs'[r].pc = "Received"
                \/ /\ reqs[r].pc \in {"Received", "Verified", "Parsed", "Classified",
                                      "Saving", "Writing", "Stored"}
                   /\ \/ reqs'[r].pc = "Rejected"
                      \/ reqs'[r].pc = GateOrder[GateIndex(reqs[r].pc) + 1]
       /\ \A r \in Slots :
            reqs'[r].pc = "Verified" /\ reqs[r].pc # "Verified" => VerdictNow(r) = "true"
       /\ \A r \in Slots :
            reqs'[r].payload.t # "undef" /\ reqs[r].payload.t = "undef" =>
                /\ reqs[r].pc = "Verified"
                /\ JsonParse(RawBodyOf(reqs[r].body).bytes).ok
       /\ (files' # files \/ outside' # outside) =>
            \E r \in Slots :
                /\ reqs[r].pc \in {"Saving", "Writing"}
                /\ reqs[r].payload.t # "undef"
                /\ reqs'[r].writes = reqs[r].writes + 1
      ]_vars

\* One request has passed every gate and is acknowledged with its record
\* stored, another was rejected at a gate.
C5_WitnessAcknowledgedAndRejected ==
    \E r, q \in Slots :
        /\ reqs[r].pc = "Acknowledged"
        /\ reqs[r].writes = 2
        /\ reqs[q].pc = "Rejected"

----------------------------------------------------------------------------
(* Claims about the signature verifier, checked under SpecVerify *)

Called == vResult # "none"

\* The call has a Buffer body, a non-empty key and a non-empty timestamp that
\* Number() puts inside the skew window.
InsideWindow ==
    /\ vArgs.rawBody.isBuffer
    /\ vArgs.secret # <<>>
    /\ vArgs.timestamp # <<>>
    /\ IsFinite(ToNumber(vArgs.timestamp))
    /\ ~SkewExceeded(vNow, ToNumber(vArgs.timestamp), DefaultMaxSkewSeconds)

\* The hex digest of HMAC-SHA256 keyed by the secret over T, '.', B.
ReferenceHex ==
    HexEncode(HmacSha256(vArgs.secret, vArgs.timestamp \o <<".">> \o vArgs.rawBody.bytes))

\* C6: for a body B, a timestamp T inside the skew window and a non-empty
\* secret S, verifySignature returns true exactly when the provided signature,
\* after prefix stripping, is the hex digest of HMAC-SHA256 keyed by S over
\* T, '.', B; any other provided value yields false.
C6_TrueExactlyOnTheHexDigest ==
    (Called /\ InsideWindow) =>
        (vResult = "true" <=> Provided(vArgs.signature) = ReferenceHex)

\* The header carries the reference digest, bare or prefixed.
CorrectlySigned ==
    /\ vArgs.rawBody.isBuffer
    /\ vArgs.secret # <<>>
    /\ vArgs.signature \in {ReferenceHex, Sha256Prefix \o ReferenceHex}

\* The timestamp header is a plain decimal integer of at most nine digits.
PlainInteger(t) == t # <<>> /\ AllDigits(t) /\ Len(t) <= 9

\* C7: with the default maxSkewSeconds of 300, a correctly signed request with
\* integer timestamp T is accepted when now - T is in [-300, 300], both ends
\* included, and rejected for every value outside that range.
C7_ReplayWindow ==
    (Called /\ CorrectlySigned /\ PlainInteger(vArgs.timestamp)) =>
        LET T == DigitsToInt(vArgs.timestamp)
        IN  vResult = "true" <=> (vNow - T >= 0 - 300 /\ vNow - T <= 300)

\* An accepted request exactly 300 seconds old.
C7_WitnessOldestAccepted ==
    /\ vResult = "true" /\ CorrectlySigned /\ PlainInteger(vArgs.timestamp)
    /\ vNow - DigitsToInt(vArgs.timestamp) = 300

\* C9: verifySignature returns false, and does not throw, whenever the
\* signature, the timestamp or the secret is empty, for every raw body.
C9_EmptyArgumentIsFalse ==
    (Called /\ (vArgs.signature = <<>> \/ vArgs.timestamp = <<>> \/ vArgs.secret = <<>>))
        => vResult = "false"

\* An empty secret with a body that would make the HMAC throw, a signature
\* present and a timestamp inside the window: answered false.
C9_WitnessEmptySecret ==
    /\ vResult = "false" /\ vArgs.secret = <<>> /\ ~vArgs.rawBody.isBuffer
    /\ vArgs.signature # <<>> /\ vArgs.timestamp # <<>>
    /\ IsFinite(ToNumber(vArgs.timestamp))
    /\ ~SkewExceeded(vNow, ToNumber(vArgs.timestamp), DefaultMaxSkewSeconds)

\* The header is an optionally signed run of decimal digits (blanks trimmed).
DenotesInteger(s) ==
    LET t == Trim(s)
        d == IF t # <<>> /\ Head(t) \in {"+", "-"} THEN Tail(t) ELSE t
    IN  d # <<>> /\ AllDigits(d)

\* C10 as stated: every timestamp header that does not denote a finite integer
\* (text, fractional or exponent notation, infinity) yields false, whatever
\* the signature (stated for Buffer bodies, where the call returns a value,
\* and for headers without surrounding blanks, as HTTP delivers them).
C10_NonIntegerIsFalse ==
    (/\ Called /\ vArgs.rawBody.isBuffer
     /\ Trim(vArgs.timestamp) = vArgs.timestamp
     /\ ~DenotesInteger(vArgs.timestamp))
        => vResult = "false"

\* C10 amended: every timestamp header that Number() does not convert to a
\* finite number (text, the infinities, an overflowing literal) yields false,
\* whatever the signature.
C10_NonFiniteIsFalse ==
    (Called /\ ToNumber(vArgs.timestamp).kind \in {"nan", "inf"}) => vResult = "false"

\* A non-numeric timestamp signed with the right key over that very header:
\* still false.
C10_WitnessSignedNonNumeric ==
    /\ vResult = "false" /\ CorrectlySigned
    /\ ToNumber(vArgs.timestamp).kind = "nan"

\* C8: starting from an accepted (body, timestamp, signature), changing any
\* single byte of the body, of the timestamp header or of the signature header
\* makes verifySignature return false.  Checked under SpecTamper.
C8_AnyByteChangeIsRejected ==
    (vTampered # "none" /\ Called) => vResult = "false"

\* A non-empty string of hex digits.
IsHexString(s) == s # <<>> /\ \A i \in 1..Len(s) : IsHexChar(s[i])

\* verifySignature on the call's arguments with the signature header replaced.
ResultWithSignature(signature) ==
    verifySignature(vArgs.rawBody, signature, vArgs.timestamp, vArgs.secret,
                    DefaultMaxSkewSeconds, vNow)

\* C11: with every other input fixed, verifySignature gives the same result
\* for a hex digest D as the signature header and for 'sha256=' followed by
\* D.  Checked under SpecVerify, from the bare and from the prefixed header.
C11_PrefixedAndBareAgree ==
    Called =>
        /\ IsHexString(vArgs.signature) =>
                ResultWithSignature(Sha256Prefix \o vArgs.signature) = vResult
        /\ (/\ StartsWith(vArgs.signature, Sha256Prefix)
            /\ IsHexString(SubSeq(vArgs.signature, Len(Sha256Prefix) + 1,
                                  Len(vArgs.signature)))) =>
                ResultWithSignature(SubSeq(vArgs.signature, Len(Sha256Prefix) + 1,
                                           Len(vArgs.signature))) = vResult

\* A call whose header is 'sha256=' followed by the expected digest is accepted.
C11_WitnessPrefixedAccepted ==
    /\ Called
    /\ InsideWindow
    /\ vArgs.signature = Sha256Prefix \o ReferenceHex
    /\ vResult = "true"

\* The decoded arrays the call compares.
ExpectedBytes == BufferFromHex(ReferenceHex)
ProvidedBytes == BufferFromHex(Provided(vArgs.signature))

----------------------------------------------------------------------------
(* Claims about the file store, checked under SpecStore *)

\* The documents JSON.stringify(payload, null, 2) gives for the payloads saved.
SavedDocuments == {Stringify(JsonParse(doc).val, 0) : doc \in StoreDocs}

\* C13: every read of a record's file by a listing or a lookup returns the
\* complete JSON document of some save, also while saves are running.
C13_ReadsSeeCompleteDocuments ==
    [][\A q \in ReaderSlots :
        (readers[q].pc = "Reading" /\ readers'[q].queue # readers[q].queue)
        => files[Head(readers[q].queue)] \in SavedDocuments]_vars

\* C14: once every save has returned or been abandoned, wherever it was
\* abandoned, each file in the storage directory holds a complete document.
C14_AbandonLeavesNoPartialRecord ==
    Quiet => \A name \in DOMAIN files : files[name] \in SavedDocuments

\* The event_timestamp, type and conversation id of a payload.
KeyOf(payload) ==
    <<Get(payload, EventTimestampKey), Get(payload, TypeKey),
      Get(Get(payload, DataKey), ConversationIdKey)>>

\* C15: two payloads that differ in event_timestamp, type or conversation id
\* are written to different files.
C15_DistinctRecordsDistinctFiles ==
    \A r1, r2 \in Slots :
        (/\ reqs[r1].pc \in {"Writing", "Stored"}
         /\ reqs[r2].pc \in {"Writing", "Stored"}
         /\ KeyOf(reqs[r1].payload) # KeyOf(reqs[r2].payload))
        => reqs[r1].target # reqs[r2].target

\* C16: the file a save writes is a direct child of the storage directory,
\* whatever type, conversation id and event_timestamp the payload holds.
C16_WrittenFileIsChildOfDataDir ==
    /\ outside = {}
    /\ \A r \in Slots :
        reqs[r].pc \in {"Writing", "Stored"} => InDataDir(reqs[r].target)

\* The characters [A-Za-z0-9_-], by their places in the ASCII table.
AllowedIdChars ==
    {Ascii[i] : i \in (17..26) \cup (34..59) \cup (66..91)} \cup {"_", "-"}

\* The text a template literal gives for a member, or the default when the
\* member is absent.
PartOr(member, default) ==
    IF member.t \in {"undef", "null"} THEN default ELSE JsToString(member)

\* The name is '{event_timestamp}_{type}_' followed by an id part and '.json',
\* with 'unknown' and the current time as defaults; the id part has the length
\* of the conversation id ('no_conversation' by default), keeps its allowed
\* characters and holds '_' in place of every other one.
NamedAsClaimed(name, payload, nowMs) ==
    LET head == PartOr(Get(payload, EventTimestampKey), IntToString(nowMs)) \o <<"_">>
                    \o PartOr(Get(payload, TypeKey), UnknownType) \o <<"_">>
        id == PartOr(Get(Get(payload, DataKey), ConversationIdKey), NoConversation)
        part == SubSeq(name, Len(head) + 1, Len(name) - Len(JsonSuffix))
    IN  /\ Len(name) = Len(head) + Len(id) + Len(JsonSuffix)
        /\ SubSeq(name, 1, Len(head)) = head
        /\ EndsWith(name, JsonSuffix)
        /\ \A i \in 1..Len(id) :
            part[i] = IF id[i] \in AllowedIdChars THEN id[i] ELSE "_"

\* C17: the file a save opens is the storage directory joined with a name of
\* the form '{event_timestamp}_{type}_{sanitized_conversation_id}.json', with
\* the defaults 'unknown', 'no_conversation' and the current time.
C17_RecordNameFormat ==
    [][\A r \in Slots :
        (reqs[r].pc = "Saving" /\ reqs'[r].pc = "Writing") =>
            \E name \in {getFilename(reqs[r].payload, clock * 1000)} :
                /\ NamedAsClaimed(name, reqs[r].payload, clock * 1000)
                /\ reqs'[r].target = JoinDataDir(name)]_vars

\* The payload with conversation id 'c.1' is stored as
\* 100_post_call_audio_c_1.json, and the empty payload under the defaults.
C17_WitnessSanitizedAndDefaults ==
    /\ \E r \in Slots :
        /\ reqs[r].pc = "Stored"
        /\ reqs[r].body = BufferBody(DottedIdDoc)
        /\ reqs[r].target.segs[Len(reqs[r].target.segs)] =
                << "1", "0", "0", "_", "p", "o", "s", "t", "_", "c", "a", "l", "l", "_", "a", "u", "d", "i", "o", "_", "c", "_", "1", ".", "j", "s", "o", "n" >>
    /\ \E name \in DOMAIN files :
        EndsWith(name, << "0", "0", "0", "_", "u", "n", "k", "n", "o", "w", "n", "_", "n", "o", "_", "c", "o", "n", "v", "e", "r", "s", "a", "t", "i", "o", "n", ".", "j", "s", "o", "n" >>)

\* C18: a listing of one record that is called after the save of P has
\* returned, P being the most recent write, with no save running or begun
\* since, returns the one-element sequence holding P (stated for the runs in which
\* every save wrote inside the storage directory and none was abandoned).
C18_SaveThenListLatestReturnsIt ==
    \A q \in ReaderSlots :
        (/\ readers[q].pc = "Done"
         /\ readers[q].op = "list"
         /\ readers[q].limit = 1
         /\ readers[q].quiet
         /\ readers[q].epoch = arrivals
         /\ lastWrite.t # "undef"
         /\ outside = {}
         /\ \A r \in Slots : reqs[r].pc # "Abandoned")
        => readers[q].items = <<lastWrite>>

\* C19: the payloads a listing returns are ordered by numerically descending
\* event_timestamp.
C19_ListedNewestFirst ==
    \A q \in ReaderSlots :
        (readers[q].pc = "Done" /\ readers[q].op = "list") =>
            \A i, j \in 1..Len(readers[q].items) :
                (/\ i < j
                 /\ Get(readers[q].items[i], EventTimestampKey).t = "num"
                 /\ Get(readers[q].items[j], EventTimestampKey).t = "num")
                => Get(readers[q].items[i], EventTimestampKey).n
                        >= Get(readers[q].items[j], EventTimestampKey).n

\* The event_timestamp of the record stored under the name.
StoredTimestamp(name) == Get(JsonParse(files[name]).val, EventTimestampKey).n

\* C20: a lookup made while no save runs returns the parsed content of the
\* record with the greatest event_timestamp among the stored records whose
\* name contains the id, and null when no name contains it.
C20_LookupReturnsLatestMatch ==
    \A q \in ReaderSlots :
        (/\ readers[q].pc = "Done"
         /\ readers[q].op = "get"
         /\ readers[q].quiet
         /\ readers[q].epoch = arrivals
         /\ \A name \in DOMAIN files : files[name] \in SavedDocuments)
        => LET matching == {name \in DOMAIN files : Includes(name, readers[q].id)}
           IN  IF matching = {} THEN readers[q].result = JNull
               ELSE \E name \in matching :
                        /\ readers[q].result = JsonParse(files[name]).val
                        /\ \A other \in matching :
                            StoredTimestamp(other) <= StoredTimestamp(name)

----------------------------------------------------------------------------
(* Claims about configuration and the uniform rejection, checked under Spec
   and SpecAuth *)

\* C26: with the secret set in ELEVENLABS_CONVAI_WEBHOOK_SECRET, as the
\* README's setup instructs, a fresh delivery signed with that secret is not
\* answered 500 (it is verified against the secret and acknowledged).
C26_ReadmeSecretIsConfigured ==
    \A r \in Slots :
        (/\ env.ELEVENLABS_CONVAI_WEBHOOK_SECRET # <<>>
         /\ reqs[r].body = BufferBody(TranscriptionDoc)
         /\ reqs[r].timestamp = FreshTimestamp
         /\ reqs[r].signature =
                Signed(TranscriptionDoc, FreshTimestamp,
                       env.ELEVENLABS_CONVAI_WEBHOOK_SECRET).signature)
        => reqs[r].status # 500

\* The request on connection r fails one of the checks of the verification:
\* it has no signature or no timestamp, its timestamp is not a number or is
\* outside the window, or the digest it carries, decoded, is not the keyed
\* hash of its timestamp and body (of another value or of another length).
FailsACheck(r) ==
    LET ts == ToNumber(reqs[r].timestamp)
    IN  \/ reqs[r].signature = <<>>
        \/ reqs[r].timestamp = <<>>
        \/ ~IsFinite(ts)
        \/ SkewExceeded(clock, ts, DefaultMaxSkewSeconds)
        \/ BufferFromHex(Provided(reqs[r].signature))
            # HmacSha256(env.WEBHOOK_SECRET,
                         reqs[r].timestamp \o <<".">> \o reqs[r].body.bytes)

\* C25: with a secret configured, every request that fails a check of the
\* verification is answered 401 {error:'Invalid signature'}, whichever check
\* it fails.
C25_EveryFailureIsTheSame401 ==
    [][\A r \in Slots :
        (/\ reqs[r].pc = "Received"
         /\ env.WEBHOOK_SECRET # <<>>
         /\ FailsACheck(r)
         /\ Steps(r))
        => /\ reqs'[r].status = 401
           /\ reqs'[r].reply = "{error:'Invalid signature'}"]_vars

----------------------------------------------------------------------------
(* Claims about retrieval, checked under SpecRead and SpecRoutes *)

\* The names a listing with the limit selects from the directory.
SelectedFiles(limit) == Slice(ListedFiles(DOMAIN files), limit)

\* Those of the names whose file holds valid JSON, in the same order.
Parseable(names) == SelectSeq(names, LAMBDA name : JsonParse(files[name]).ok)

\* C23: a listing never fails, and it returns the parsed contents of exactly
\* those selected files that hold valid JSON, in the order selected: a file
\* that is not valid JSON is left out and changes nothing else.
C23_CorruptFilesAreSkipped ==
    \A q \in ReaderSlots :
        /\ readers[q].pc \in {"Idle", "DirReady", "Reading", "Done"}
        /\ (readers[q].pc = "Done" /\ readers[q].op = "list") =>
            LET kept == Parseable(SelectedFiles(readers[q].limit))
            IN  readers[q].items =
                    [i \in 1..Len(kept) |-> JsonParse(files[kept[i]]).val] \o <<>>

\* A listing has returned records although two of the files it selected do
\* not hold valid JSON.
C23_WitnessListedAroundCorruptFiles ==
    \E q \in ReaderSlots :
        /\ readers[q].pc = "Done"
        /\ readers[q].op = "list"
        /\ Len(readers[q].items) = 2
        /\ Len(SelectedFiles(readers[q].limit)) = 4
        /\ \E name \in DOMAIN files :
            EndsWith(name, JsonSuffix) /\ files[name] = TruncatedDoc

\* C24: a listing never returns more than its limit (100 when none is given),
\* and GET /conversations is answered 200 with at most 50 items ordered by
\* descending event_timestamp.
C24_ListingBoundedAndNewestFirst ==
    \A q \in ReaderSlots :
        /\ readers[q].op = "list" => Len(readers[q].items) <= readers[q].limit
        /\ (readers[q].pc = "Answered" /\ readers[q].op = "list") =>
            /\ readers[q].status = 200
            /\ Len(readers[q].items) <= PageSize
            /\ \A i, j \in 1..Len(readers[q].items) :
                (/\ i < j
                 /\ Get(readers[q].items[i], EventTimestampKey).t = "num"
                 /\ Get(readers[q].items[j], EventTimestampKey).t = "num")
                => Get(readers[q].items[i], EventTimestampKey).n
                        >= Get(readers[q].items[j], EventTimestampKey).n

\* The names of the stored records that match the id.
MatchingRecords(id) ==
    {name \in DOMAIN files : Includes(name, id) /\ EndsWith(name, JsonSuffix)}

\* The GET on connection q was requested while no ingestion request was
\* being handled, none has arrived since, and it has been answered.
AnsweredAtRest(q) ==
    /\ readers[q].pc = "Answered"
    /\ readers[q].op = "get"
    /\ readers[q].quiet
    /\ readers[q].epoch = arrivals

\* C21: after the request for a payload with data.conversation_id C has been
\* acknowledged (200 or 202), a GET /conversations/C made while no record
\* matching C with a greater event_timestamp is stored returns 200 with that
\* payload.
C21_AcknowledgedIsRetrievable ==
    \A q \in ReaderSlots : \A r \in Slots :
        LET id == Get(Get(reqs[r].payload, DataKey), ConversationIdKey)
            ts == Get(reqs[r].payload, EventTimestampKey)
        IN  (/\ AnsweredAtRest(q)
             /\ reqs[r].pc = "Acknowledged"
             /\ reqs[r].status \in {200, 202}
             /\ id.t = "str"
             /\ ts.t = "num"
             /\ readers[q].id = id.s
             /\ \A name \in MatchingRecords(id.s) : StoredTimestamp(name) <= ts.n)
            => /\ readers[q].status = 200
               /\ readers[q].result = reqs[r].payload

\* C22: GET /conversations/{id} made while nothing is being written is
\* answered 404 {error:'Not found'} exactly when no stored record matches the
\* id, and 200 with the payload of a matching record otherwise.
C22_NotFoundExactlyWhenNoMatch ==
    \A q \in ReaderSlots :
        (/\ AnsweredAtRest(q)
         /\ \A name \in DOMAIN files : JsonParse(files[name]).ok)
        => IF MatchingRecords(readers[q].id) = {}
           THEN readers[q].status = 404 /\ readers[q].reply = "{error:'Not found'}"
           ELSE /\ readers[q].status = 200
                /\ \E name \in MatchingRecords(readers[q].id) :
                        readers[q].result = JsonParse(files[name]).val

----------------------------------------------------------------------------
(* Claims about the transcript viewer *)

\* min(10000 * 1.5^k, 30000) for k >= 1, and 10000 for k = 0.
BackoffMs(k) ==
    IF k = 0 THEN 10000
    ELSE Min((10000 * Pow(3, k)) \div Pow(2, k), 30000)

\* C28: the viewer's polling interval is 10000 ms when retryCount is 0 and
\* min(10000 * 1.5^retryCount, 30000) ms otherwise; in every reachable state
\* it lies between 10000 and 30000 ms, and it is non-decreasing in retryCount.
C28_IntervalIsBackoffWithinRange ==
    /\ viewer.timerSet =>
        /\ viewer.interval = BackoffMs(viewer.timerClosure)
        /\ ~viewer.effectPending => viewer.interval = BackoffMs(viewer.retryCount)
        /\ viewer.interval >= 10000
        /\ viewer.interval <= 30000
    /\ \A k \in 0..viewer.retryCount : PollInterval(k) <= PollInterval(k + 1)

\* The timer is set after three failures in a row, at the cap of the interval.
C28_WitnessCappedInterval ==
    /\ viewer.timerSet
    /\ ~viewer.effectPending
    /\ viewer.retryCount >= 3
    /\ viewer.interval = 30000

\* A fetch completes in this step.
FetchCompletes == Len(viewer'.inflight) < Len(viewer.inflight)

\* C29: every successful fetch resets retryCount to 0 and every failed fetch
\* (status not OK, network error, timeout) increases it by exactly 1, so
\* after any sequence of completed fetches retryCount is the number of
\* failures since the last success.
C29_RetryCountCountsFailuresSinceSuccess ==
    [][ /\ (FetchCompletes /\ viewer'.error = "") => viewer'.retryCount = 0
        /\ (FetchCompletes /\ viewer'.error # "") =>
                viewer'.retryCount = viewer.retryCount + 1
        /\ viewer'.retryCount = viewer'.streak ]_vars

\* Two failures after a success that itself followed a failure.
C29_WitnessCountedAfterReset ==
    /\ viewer.recovered
    /\ viewer.streak = 2
    /\ viewer.retryCount = 2

\* The turns and the summary on display.
Displayed == [turns |-> viewer.turns, summary |-> viewer.summary]

\* The turns and the summary of the last successful fetch; empty and null
\* before the first one.
LastFetched ==
    IF viewer.lastGood.any
    THEN [turns |-> CleanTurns(viewer.build, viewer.lastGood),
          summary |-> SummaryOf(viewer.lastGood)]
    ELSE [turns |-> <<>>, summary |-> NullSummary]

\* C30: a failed fetch never loses data: the displayed turns and summary are
\* those of the most recent successful fetch (empty and null before the
\* first), and once retryCount exceeds 3 they are the cached data.
C30_FailuresKeepTheLastFetchedData ==
    /\ Displayed = LastFetched
    /\ viewer.retryCount > maxRetries => Displayed = viewer.cache

\* More than three failures after a fetch that brought turns, which are still
\* on display.
C30_WitnessShownAfterRetriesExhausted ==
    /\ viewer.retryCount > maxRetries
    /\ viewer.lastGood.any
    /\ viewer.turns # <<>>
    /\ viewer.error # ""

\* C27: after k >= 1 failed fetches in a row the next fetch is issued only
\* once min(10000 * 1.5^k, 30000) ms have passed since the last failure.
C27_NextFetchWaitsForBackoff ==
    [][ (viewer'.issued > viewer.issued /\ viewer.streak >= 1) =>
            viewer.since >= BackoffMs(viewer.streak) ]_vars

----------------------------------------------------------------------------
(* Claims about the acknowledgement and the store *)

\* Request r is answered 200 or 202 in this step.
Acknowledges(r) ==
    /\ reqs[r].pc # "Acknowledged"
    /\ reqs'[r].pc = "Acknowledged"
    /\ reqs'[r].status \in {200, 202}

\* C32: a 200 or 202 is sent only after the store's write for the payload has
\* completed: when the response is sent, the record named by the payload's
\* derived filename exists in the storage directory.
C32_AcknowledgedAfterRecordExists ==
    [][\A r \in Slots : Acknowledges(r) =>
            /\ reqs[r].pc = "Stored"
            /\ reqs[r].writes = 2
            /\ InDataDir(reqs[r].target)
            /\ reqs[r].target.segs[Len(reqs[r].target.segs)] \in DOMAIN files]_vars

\* Request r gets its response in this step.
Answered(r) ==
    /\ reqs[r].pc \notin {"Acknowledged", "Rejected"}
    /\ reqs'[r].pc \in {"Acknowledged", "Rejected"}

\* C33: every ingestion request is answered once, with a status in
\* {200, 202, 400, 401, 500}; an exception raised after the secret check, a
\* failed write included, is answered 400 {error:'Invalid payload'}.
C33_AnsweredOnceWithAKnownStatus ==
    [][\A r \in Slots :
        /\ Answered(r) => reqs'[r].status \in {200, 202, 400, 401, 500}
        /\ (Steps(r) /\ reqs[r].pc \in {"Acknowledged", "Rejected"}) =>
                reqs'[r].pc \in {"Received", "Rejected"} /\ arrivals' = arrivals + 1
        /\ (Answered(r) /\ reqs[r].pc \in {"Verified", "Saving"}) =>
                (reqs'[r].status = 400 /\ reqs'[r].reply = "{error:'Invalid payload'}")]_vars

\* The payload carries an event_timestamp.
CarriesTimestamp(payload) == Get(payload, EventTimestampKey).t \notin {"undef", "null"}

\* The store holds the one record a single save of the payload leaves, and
\* nothing else.
HoldsOnly(payload) ==
    LET p == JoinDataDir(getFilename(payload, clock * 1000))
        content == Stringify(payload, 0)
    IN  IF InDataDir(p)
        THEN /\ DOMAIN files = {p.segs[Len(p.segs)]}
             /\ files[p.segs[Len(p.segs)]] = content
             /\ outside = {}
        ELSE /\ files = <<>>
             /\ outside = {[path |-> p, content |-> content]}

\* Every request so far was a delivery of the one payload, each on a
\* connection of its own, and each has been acknowledged.
DeliveredTimes(n) ==
    /\ arrivals = n
    /\ Cardinality({r \in Slots : reqs[r].pc = "Acknowledged"}) = n
    /\ \A r \in Slots : reqs[r].pc \in {"Idle", "Acknowledged"}
    /\ \A r1, r2 \in Slots :
        (reqs[r1].pc = "Acknowledged" /\ reqs[r2].pc = "Acknowledged")
            => reqs[r1].payload = reqs[r2].payload

\* C34: saving a payload that carries an event_timestamp twice leaves the
\* same records, with the same contents, as saving it once.
C34_RedeliveryLeavesTheSameRecords ==
    \A r \in Slots :
        (/\ reqs[r].pc = "Acknowledged"
         /\ CarriesTimestamp(reqs[r].payload)
         /\ DeliveredTimes(1) \/ DeliveredTimes(2))
        => HoldsOnly(reqs[r].payload)

\* The same transcript was delivered and acknowledged twice, the second time
\* later than the first, and one record is stored.
C34_WitnessDeliveredTwice ==
    /\ DeliveredTimes(2)
    /\ \A r \in Slots : CarriesTimestamp(reqs[r].payload)
    /\ clock > 300
    /\ Cardinality(DOMAIN files) = 1

\* The '.json' names in the directory.
JsonNames == {name \in DOMAIN files : EndsWith(name, JsonSuffix)}

\* The limit lexically greatest of them.
Greatest(limit) ==
    {name \in JsonNames : Cardinality({m \in JsonNames : LexLess(name, m)}) < limit}

\* Those among them whose file parses.
Valid(names) == {name \in names : JsonParse(files[name]).ok}

\* C35: a listing applies the limit before parsing: its items are the parsed
\* contents of those of the limit lexically greatest '.json' names that
\* parse, greatest name first; a file among them that does not parse is
\* dropped and no older record takes its place.
C35_LimitAppliesBeforeParsing ==
    \A q \in ReaderSlots :
        (readers[q].pc = "Done" /\ readers[q].op = "list") =>
            LET kept == Valid(Greatest(readers[q].limit))
            IN  /\ Len(readers[q].items) = Cardinality(kept)
                /\ \A name \in kept :
                    readers[q].items[1 + Cardinality({m \in kept : LexLess(name, m)})]
                        = JsonParse(files[name]).val

\* A listing with limit 1 has returned nothing, because the greatest name
\* does not parse, while a valid record is stored under a lesser name.
C35_WitnessFewerThanLimit ==
    \E q \in ReaderSlots :
        /\ readers[q].pc = "Done"
        /\ readers[q].op = "list"
        /\ readers[q].limit = 1
        /\ readers[q].items = <<>>
        /\ Valid(JsonNames) # {}
        /\ Valid(Greatest(1)) = {}
        /\ Greatest(1) # {}

\* A retrieval request (GET /health, GET /conversations, GET
\* /conversations/{id}) takes a step.
RetrievalSteps == \E q \in ReaderSlots : readers'[q] # readers[q]

\* C36: retrieval is read-only: no step of a GET /health, GET /conversations
\* or GET /conversations/{id} request changes the stored records or their
\* contents, however it is interleaved with other requests.
C36_RetrievalLeavesRecordsUnchanged ==
    [][RetrievalSteps => (files' = files /\ outside' = outside)]_vars

\* A lookup has been answered while a delivery was being written: the file it
\* read is open and still empty.
C36_WitnessReadDuringWrite ==
    \E q \in ReaderSlots, r \in Slots :
        /\ readers[q].pc = "Answered"
        /\ readers[q].op = "get"
        /\ readers[q].status = 404
        /\ reqs[r].pc = "Writing"
        /\ \E name \in DOMAIN files : files[name] = <<>> /\ Includes(name, readers[q].id)

----------------------------------------------------------------------------
(* Claims about the call widget *)

\* C31: in the call widget a poll that throws or gets a response that is not
\* OK leaves the error, the transcript and the summary as they were, and
\* polls go on every 10 seconds, failed or not, until the component
\* unmounts; none is issued after that.
C31_PollingFailsSilentlyAndGoesOn ==
    [][ /\ widget'.failures > widget.failures =>
            /\ widget'.error = widget.error
            /\ widget'.transcript = widget.transcript
            /\ widget'.transcriptSummary = widget.transcriptSummary
            /\ widget'.timerSet = widget.timerSet
            /\ widget'.timerLeft = widget.timerLeft
        /\ (widget'.issued > widget.issued /\ widget.mounted) =>
            /\ widget.sincePoll >= 10000
            /\ widget.sincePoll < 10000 + TimeStepMs
        /\ widget'.mounted => (widget'.timerSet /\ widget'.sincePoll <= 10000 + TimeStepMs)
        /\ widget.unmounted => widget'.issued = widget.issued ]_vars

\* A poll is issued on time after the two before it have failed, with an
\* error of the conversation and a transcript on display.
C31_WitnessPolledAfterFailures ==
    /\ widget.mounted
    /\ widget.failures >= 2
    /\ widget.issued = 3
    /\ widget.sincePoll = 0
    /\ widget.error # ""
    /\ widget.transcript # <<>>

\* C37: in the viewer, loading is true exactly while a fetch is in flight;
\* also when a manual refresh, an interval tick and the fetch of an effect
\* re-run overlap, loading is false only if no fetch is outstanding.
C37_LoadingExactlyWhileFetching ==
    viewer.mounted => (viewer.loading <=> viewer.inflight # <<>>)

====
